---- MODULE Spec2Model ----
(***************************************************************************)
(* State-machine model of the TCAN1463-Q1 simulator kernel: the pin store, *)
(* the power monitor, the wake handler, the mode controller, the CAN       *)
(* transceiver, the bus-bias controller, the fault detector, the INH       *)
(* controller and the per-step update sequence that drives them.           *)
(*                                                                         *)
(* Units: time is in nanoseconds (uint64_t in the source), voltages are in *)
(* millivolts (double volts in the source), temperature in degrees         *)
(* Celsius.  The sentinel UINT64_MAX ("timer not running") is NoTime; the  *)
(* source never does arithmetic on it (every subtraction is guarded by a   *)
(* comparison with the sentinel first).                                    *)
(***************************************************************************)
EXTENDS Integers, FiniteSets, Sequences, TLC

(***************************************************************************)
(* Enumerations (include/tcan1463q1_types.h)                               *)
(***************************************************************************)
PIN_TXD == "PIN_TXD"
PIN_RXD == "PIN_RXD"
PIN_EN == "PIN_EN"
PIN_NSTB == "PIN_NSTB"
PIN_NFAULT == "PIN_NFAULT"
PIN_WAKE == "PIN_WAKE"
PIN_INH == "PIN_INH"
PIN_INH_MASK == "PIN_INH_MASK"
PIN_CANH == "PIN_CANH"
PIN_CANL == "PIN_CANL"
PIN_VSUP == "PIN_VSUP"
PIN_VCC == "PIN_VCC"
PIN_VIO == "PIN_VIO"
PIN_GND == "PIN_GND"

PinType ==
  {PIN_TXD, PIN_RXD, PIN_EN, PIN_NSTB, PIN_NFAULT, PIN_WAKE, PIN_INH,
   PIN_INH_MASK, PIN_CANH, PIN_CANL, PIN_VSUP, PIN_VCC, PIN_VIO, PIN_GND}

PIN_STATE_LOW == "LOW"
PIN_STATE_HIGH == "HIGH"
PIN_STATE_HIGH_IMPEDANCE == "HIGH_IMPEDANCE"
PIN_STATE_ANALOG == "ANALOG"

PinState ==
  {PIN_STATE_LOW, PIN_STATE_HIGH, PIN_STATE_HIGH_IMPEDANCE, PIN_STATE_ANALOG}

MODE_NORMAL == "MODE_NORMAL"
MODE_SILENT == "MODE_SILENT"
MODE_STANDBY == "MODE_STANDBY"
MODE_GO_TO_SLEEP == "MODE_GO_TO_SLEEP"
MODE_SLEEP == "MODE_SLEEP"
MODE_OFF == "MODE_OFF"

OperatingMode ==
  {MODE_NORMAL, MODE_SILENT, MODE_STANDBY, MODE_GO_TO_SLEEP, MODE_SLEEP,
   MODE_OFF}

BUS_STATE_DOMINANT == "DOMINANT"
BUS_STATE_RECESSIVE == "RECESSIVE"
BUS_STATE_INDETERMINATE == "INDETERMINATE"

CAN_STATE_OFF == "CAN_OFF"
CAN_STATE_AUTONOMOUS_INACTIVE == "CAN_AUTONOMOUS_INACTIVE"
CAN_STATE_AUTONOMOUS_ACTIVE == "CAN_AUTONOMOUS_ACTIVE"
CAN_STATE_ACTIVE == "CAN_ACTIVE"

BIAS_STATE_OFF == "BIAS_OFF"
BIAS_STATE_AUTONOMOUS_INACTIVE == "BIAS_AUTONOMOUS_INACTIVE"
BIAS_STATE_AUTONOMOUS_ACTIVE == "BIAS_AUTONOMOUS_ACTIVE"
BIAS_STATE_ACTIVE == "BIAS_ACTIVE"

WUP_STATE_IDLE == "WUP_IDLE"
WUP_STATE_FIRST_DOMINANT == "WUP_FIRST_DOMINANT"
WUP_STATE_RECESSIVE == "WUP_RECESSIVE"
WUP_STATE_SECOND_DOMINANT == "WUP_SECOND_DOMINANT"
WUP_STATE_COMPLETE == "WUP_COMPLETE"

\* UINT64_MAX used as "timer not running"
NoTime == -1

(***************************************************************************)
(* Thresholds and timing parameters                                        *)
(***************************************************************************)
UVSUP_FALLING_MIN == 3500
UVSUP_RISING_MIN == 3850
UVCC_FALLING_MAX == 3900
UVCC_RISING_MIN == 4100
UVIO_FALLING_MAX == 1250
UVIO_RISING_MIN == 1400
\* MS_TO_NS(TUV_MIN_MS)
TUV_MIN_NS == 100000000
\* MS_TO_NS(TTXDDTO_MIN_MS)
TTXDDTO_MIN_NS == 1200000
\* MS_TO_NS(TBUSDOM_MIN_MS)
TBUSDOM_MIN_NS == 1400000
\* US_TO_NS(TWK_FILTER_MIN_US)
TWK_FILTER_MIN_NS == 500
\* MS_TO_NS(TWK_TIMEOUT_MAX_MS)
TWK_TIMEOUT_MAX_NS == 2000000
\* S_TO_NS(TSILENCE_MIN_S), the mode controller's TSILENCE_NS
MODE_TSILENCE_NS == 600000000
\* the transceiver state machine's own TSILENCE_NS
CAN_TSILENCE_NS == 1000000000
TPROP_LOOP1_MIN_NS == 100
TPROP_LOOP1_MAX_NS == 190
TPROP_LOOP2_MIN_NS == 110
TPROP_LOOP2_MAX_NS == 190
\* TINH_SLP_STB_US * 1000
TINH_SLP_STB_NS == 100000
TSDR_CELSIUS == 165
VDIFF_DOMINANT_THRESHOLD == 900
VDIFF_RECESSIVE_THRESHOLD == 500
CANH_DOMINANT_VOLTAGE == 3500
CANL_DOMINANT_VOLTAGE == 1500
CANH_RECESSIVE_VOLTAGE == 2500
CANL_RECESSIVE_VOLTAGE == 2500
BIAS_VOLTAGE_2_5V == 2500
BIAS_VOLTAGE_GND == 0
\* 5.0 - INH_OUTPUT_VOLTAGE_DROP
INH_HIGH_VOLTAGE == 4250

(***************************************************************************)
(* Pin store (src/pin_manager.cpp)                                         *)
(***************************************************************************)
pin_voltage_ranges ==
  [p \in PinType |->
     CASE p \in {PIN_TXD, PIN_RXD, PIN_EN, PIN_NSTB, PIN_NFAULT, PIN_WAKE,
                 PIN_INH_MASK} -> [min |-> 0, max |-> 5500]
       [] p = PIN_INH -> [min |-> 0, max |-> 42000]
       [] p \in {PIN_CANH, PIN_CANL} -> [min |-> -27000, max |-> 42000]
       [] p = PIN_VSUP -> [min |-> 4500, max |-> 42000]
       [] p = PIN_VCC -> [min |-> 4500, max |-> 5500]
       [] p = PIN_VIO -> [min |-> 1650, max |-> 5500]
       [] p = PIN_GND -> [min |-> 0, max |-> 0]]

pin_directions ==
  [p \in PinType |->
     CASE p \in {PIN_RXD, PIN_NFAULT, PIN_INH} ->
            [is_input |-> FALSE, is_output |-> TRUE]
       [] p \in {PIN_CANH, PIN_CANL} -> [is_input |-> TRUE, is_output |-> TRUE]
       [] OTHER -> [is_input |-> TRUE, is_output |-> FALSE]]

\* the state of a pin after pin_manager_init
pin_manager_init ==
  [p \in PinType |->
     CASE p \in {PIN_TXD, PIN_RXD, PIN_NFAULT} ->
            [state |-> PIN_STATE_HIGH, voltage |-> 0]
       [] p \in {PIN_INH, PIN_CANH, PIN_CANL} ->
            [state |-> PIN_STATE_HIGH_IMPEDANCE, voltage |-> 0]
       [] p = PIN_VSUP -> [state |-> PIN_STATE_ANALOG, voltage |-> 12000]
       [] p = PIN_VCC -> [state |-> PIN_STATE_ANALOG, voltage |-> 5000]
       [] p = PIN_VIO -> [state |-> PIN_STATE_ANALOG, voltage |-> 3300]
       [] p = PIN_GND -> [state |-> PIN_STATE_ANALOG, voltage |-> 0]
       [] OTHER -> [state |-> PIN_STATE_LOW, voltage |-> 0]]

\* pin_validate_voltage reads the state the pin HOLDS, not the requested one
pin_validate_voltage(ps, p, voltage) ==
  IF ps[p].state # PIN_STATE_ANALOG /\ voltage = 0
    THEN TRUE
    ELSE ~(voltage < pin_voltage_ranges[p].min
           \/ voltage > pin_voltage_ranges[p].max)

pin_set_value(ps, p, state, voltage) ==
  IF pin_validate_voltage(ps, p, voltage)
    THEN [ps EXCEPT ![p] = [state |-> state, voltage |-> voltage]]
    ELSE ps

(***************************************************************************)
(* Power monitor (power_monitor.c)                                         *)
(***************************************************************************)
power_monitor_init ==
  [vsup |-> 12000, vcc |-> 5000, vio |-> 3300,
   uvsup_flag |-> FALSE, uvcc_flag |-> FALSE, uvio_flag |-> FALSE,
   pwron_flag |-> FALSE, uvcc_start_time |-> NoTime,
   uvio_start_time |-> NoTime]

\* mutant: the filter timer keeps running through the hysteresis band
uv_filtered_timer_kept(flag, start, v, prev_v, falling_max, rising_min, t) ==
  IF v < falling_max
    THEN LET s == IF start = NoTime THEN t ELSE start
         IN  <<IF t - s >= TUV_MIN_NS /\ ~flag THEN TRUE ELSE flag, s>>
    ELSE IF v > rising_min
      THEN <<FALSE, NoTime>>
      ELSE <<flag, start>>

\* one filtered rail (VCC or VIO): returns <<flag, start_time>>
uv_filtered(flag, start, v, prev_v, falling_max, rising_min, t) ==
  IF v < falling_max
    THEN LET s == IF start = NoTime THEN t ELSE start
         IN  <<IF t - s >= TUV_MIN_NS /\ ~flag THEN TRUE ELSE flag, s>>
    ELSE IF v > rising_min
      THEN <<FALSE, NoTime>>
      ELSE <<flag, IF v > prev_v THEN NoTime ELSE start>>

power_monitor_update(st, vsup, vcc, vio, t) ==
  LET set_uv == ~st.uvsup_flag /\ vsup <= UVSUP_FALLING_MIN
      clr_uv == ~set_uv /\ st.uvsup_flag /\ vsup > UVSUP_RISING_MIN
      cc == uv_filtered(st.uvcc_flag, st.uvcc_start_time, vcc, st.vcc,
                        UVCC_FALLING_MAX, UVCC_RISING_MIN, t)
      io == uv_filtered(st.uvio_flag, st.uvio_start_time, vio, st.vio,
                        UVIO_FALLING_MAX, UVIO_RISING_MIN, t)
  IN  [vsup |-> vsup, vcc |-> vcc, vio |-> vio,
       uvsup_flag |-> IF set_uv THEN TRUE
                      ELSE IF clr_uv THEN FALSE ELSE st.uvsup_flag,
       pwron_flag |-> IF clr_uv THEN TRUE ELSE st.pwron_flag,
       uvcc_flag |-> cc[1], uvcc_start_time |-> cc[2],
       uvio_flag |-> io[1], uvio_start_time |-> io[2]]

power_monitor_is_vsup_valid(st) == ~st.uvsup_flag

\* mutant: the power-on flag is left as it is
power_monitor_clear_pwron_flag_kept(st) == st

power_monitor_clear_pwron_flag(st) == [st EXCEPT !.pwron_flag = FALSE]

(***************************************************************************)
(* Mode controller (mode_controller.c)                                     *)
(***************************************************************************)
valid_transitions ==
  {<<MODE_OFF, MODE_NORMAL>>, <<MODE_OFF, MODE_SILENT>>,
   <<MODE_NORMAL, MODE_SILENT>>, <<MODE_SILENT, MODE_NORMAL>>,
   <<MODE_NORMAL, MODE_STANDBY>>, <<MODE_SILENT, MODE_STANDBY>>,
   <<MODE_NORMAL, MODE_GO_TO_SLEEP>>, <<MODE_SILENT, MODE_GO_TO_SLEEP>>,
   <<MODE_GO_TO_SLEEP, MODE_SLEEP>>,
   <<MODE_STANDBY, MODE_NORMAL>>, <<MODE_STANDBY, MODE_SILENT>>,
   <<MODE_SLEEP, MODE_STANDBY>>,
   <<MODE_NORMAL, MODE_OFF>>, <<MODE_SILENT, MODE_OFF>>,
   <<MODE_STANDBY, MODE_OFF>>, <<MODE_GO_TO_SLEEP, MODE_OFF>>,
   <<MODE_SLEEP, MODE_OFF>>}

mode_controller_init ==
  [current_mode |-> MODE_OFF, previous_mode |-> MODE_OFF,
   mode_entry_time |-> 0, wakerq_flag |-> FALSE]

\* mutant: the table lookup is skipped, every target is accepted
mode_controller_can_transition_any(from, to) == TRUE

mode_controller_can_transition(from, to) ==
  from = to \/ <<from, to>> \in valid_transitions

\* mutant: the silence timeout is tested before the supply
determine_target_mode_timeout_first(current_mode, en_high, nstb_high, vsup_valid, wakerq_set, time_in_mode) ==
  IF current_mode = MODE_GO_TO_SLEEP /\ time_in_mode >= MODE_TSILENCE_NS
    THEN MODE_SLEEP
  ELSE IF ~vsup_valid THEN MODE_OFF
  ELSE IF nstb_high
    THEN (IF en_high THEN MODE_NORMAL ELSE MODE_SILENT)
  ELSE IF wakerq_set THEN MODE_STANDBY
  ELSE IF current_mode = MODE_SLEEP THEN MODE_SLEEP
  ELSE MODE_GO_TO_SLEEP

\* mutant: the control pins are decoded before the silence timeout
determine_target_mode_pins_first(current_mode, en_high, nstb_high, vsup_valid, wakerq_set, time_in_mode) ==
  IF ~vsup_valid THEN MODE_OFF
  ELSE IF nstb_high
    THEN (IF en_high THEN MODE_NORMAL ELSE MODE_SILENT)
  ELSE IF current_mode = MODE_GO_TO_SLEEP /\ time_in_mode >= MODE_TSILENCE_NS
    THEN MODE_SLEEP
  ELSE IF wakerq_set THEN MODE_STANDBY
  ELSE IF current_mode = MODE_SLEEP THEN MODE_SLEEP
  ELSE MODE_GO_TO_SLEEP

determine_target_mode(current_mode, en_high, nstb_high, vsup_valid, wakerq_set, time_in_mode) ==
  IF ~vsup_valid THEN MODE_OFF
  ELSE IF current_mode = MODE_GO_TO_SLEEP /\ time_in_mode >= MODE_TSILENCE_NS
    THEN MODE_SLEEP
  ELSE IF nstb_high
    THEN (IF en_high THEN MODE_NORMAL ELSE MODE_SILENT)
  ELSE IF wakerq_set THEN MODE_STANDBY
  ELSE IF current_mode = MODE_SLEEP THEN MODE_SLEEP
  ELSE MODE_GO_TO_SLEEP

mode_controller_update(st, en_high, nstb_high, vsup_valid, wakerq_set, t) ==
  LET time_in_mode ==
        IF t >= st.mode_entry_time THEN t - st.mode_entry_time ELSE 0
      target_mode ==
        determine_target_mode(st.current_mode, en_high, nstb_high,
                              vsup_valid, wakerq_set, time_in_mode)
  IN  IF target_mode # st.current_mode
         /\ mode_controller_can_transition(st.current_mode, target_mode)
        THEN [st EXCEPT !.previous_mode = st.current_mode,
                        !.current_mode = target_mode,
                        !.mode_entry_time = t]
        ELSE st

(***************************************************************************)
(* Wake handler (wake_handler.c)                                           *)
(***************************************************************************)
wake_handler_init ==
  [wakerq_flag |-> FALSE, wakesr_flag |-> FALSE, wake_source_local |-> FALSE,
   wup_state |-> WUP_STATE_IDLE, wup_phase_start |-> NoTime,
   wup_timeout_start |-> NoTime, wake_pin_prev_state |-> FALSE]

\* the recurring "reset the pattern machine" assignment triple
wup_reset(st) ==
  [st EXCEPT !.wup_state = WUP_STATE_IDLE, !.wup_phase_start = NoTime,
             !.wup_timeout_start = NoTime]

wake_handler_process_wup(st, bus_state, t) ==
  IF st.wup_timeout_start # NoTime
     /\ st.wup_state # WUP_STATE_IDLE
     /\ st.wup_state # WUP_STATE_COMPLETE
     /\ t - st.wup_timeout_start >= TWK_TIMEOUT_MAX_NS
    THEN wup_reset(st)
  ELSE
    CASE st.wup_state = WUP_STATE_IDLE ->
           IF bus_state = BUS_STATE_DOMINANT
             THEN [st EXCEPT !.wup_state = WUP_STATE_FIRST_DOMINANT,
                             !.wup_phase_start = t,
                             !.wup_timeout_start = t]
             ELSE st
      [] st.wup_state = WUP_STATE_FIRST_DOMINANT ->
           IF bus_state = BUS_STATE_DOMINANT
             THEN IF t - st.wup_phase_start >= TWK_FILTER_MIN_NS
                    THEN [st EXCEPT !.wup_state = WUP_STATE_RECESSIVE,
                                    !.wup_phase_start = t]
                    ELSE st
             ELSE wup_reset(st)
      [] st.wup_state = WUP_STATE_RECESSIVE ->
           IF bus_state = BUS_STATE_RECESSIVE
             THEN IF t - st.wup_phase_start >= TWK_FILTER_MIN_NS
                    THEN [st EXCEPT !.wup_state = WUP_STATE_SECOND_DOMINANT,
                                    !.wup_phase_start = t]
                    ELSE st
             ELSE IF bus_state = BUS_STATE_DOMINANT
               THEN IF t - st.wup_phase_start >= TWK_FILTER_MIN_NS
                      THEN [st EXCEPT
                              !.wup_state = WUP_STATE_SECOND_DOMINANT,
                              !.wup_phase_start = t]
                      ELSE wup_reset(st)
               ELSE st
      [] st.wup_state = WUP_STATE_SECOND_DOMINANT ->
           IF bus_state = BUS_STATE_DOMINANT
             THEN IF t - st.wup_phase_start >= TWK_FILTER_MIN_NS
                    THEN [st EXCEPT !.wakerq_flag = TRUE,
                                    !.wakesr_flag = TRUE,
                                    !.wake_source_local = FALSE,
                                    !.wup_state = WUP_STATE_COMPLETE,
                                    !.wup_phase_start = NoTime,
                                    !.wup_timeout_start = NoTime]
                    ELSE st
             ELSE wup_reset(st)
      [] OTHER -> st

wake_handler_process_lwu(st, wake_pin_high, t) ==
  IF wake_pin_high # st.wake_pin_prev_state
    THEN [st EXCEPT !.wakerq_flag = TRUE, !.wakesr_flag = TRUE,
                    !.wake_source_local = TRUE,
                    !.wup_state = WUP_STATE_IDLE,
                    !.wup_phase_start = NoTime,
                    !.wup_timeout_start = NoTime]
    ELSE st

\* wake_handler_update with the local edge path taken in every mode
wake_handler_update_lwu_any_mode(st, bus_state, wake_pin_high, mode, t) ==
  LET s0 == IF mode = MODE_STANDBY \/ mode = MODE_SLEEP
              THEN wake_handler_process_wup(st, bus_state, t)
              ELSE IF st.wup_state # WUP_STATE_IDLE THEN wup_reset(st)
                   ELSE st
      s1 == wake_handler_process_lwu(s0, wake_pin_high, t)
  IN  [s1 EXCEPT !.wake_pin_prev_state = wake_pin_high]

wake_handler_update(st, bus_state, wake_pin_high, mode, t) ==
  LET s1 == IF mode = MODE_STANDBY \/ mode = MODE_SLEEP
              THEN LET w == wake_handler_process_wup(st, bus_state, t)
                   IN  IF mode = MODE_SLEEP
                         THEN wake_handler_process_lwu(w, wake_pin_high, t)
                         ELSE w
              ELSE IF st.wup_state # WUP_STATE_IDLE THEN wup_reset(st)
                   ELSE st
  IN  [s1 EXCEPT !.wake_pin_prev_state = wake_pin_high]

\* mutant: only the pattern machine is reset, the request flag is kept
wake_handler_clear_flags_keep_wakerq(st) ==
  [st EXCEPT !.wup_state = WUP_STATE_IDLE,
             !.wup_phase_start = NoTime, !.wup_timeout_start = NoTime]

\* wake_handler_clear_flags clearing the wake source as well
wake_handler_clear_flags_and_wakesr(st) ==
  [st EXCEPT !.wakerq_flag = FALSE, !.wakesr_flag = FALSE,
             !.wup_state = WUP_STATE_IDLE,
             !.wup_phase_start = NoTime, !.wup_timeout_start = NoTime]

wake_handler_clear_flags(st) ==
  [st EXCEPT !.wakerq_flag = FALSE, !.wup_state = WUP_STATE_IDLE,
             !.wup_phase_start = NoTime, !.wup_timeout_start = NoTime]

wake_handler_get_wakerq(st) == st.wakerq_flag

(***************************************************************************)
(* CAN transceiver (can_transceiver.c).  The file-scope static             *)
(* last_bus_activity_time is the field lba of the transceiver record.      *)
(***************************************************************************)
\* current_time - start in uint64_t.  A start later than the current time
\* (left behind by another instance, or by a restore that took the time
\* back) wraps the difference to 2^64 - (start - current_time), which is
\* larger than every duration it is compared with
ELAPSED_WRAPPED_NS == 2147483647

elapsed_ns(t, start) == IF start > t THEN ELAPSED_WRAPPED_NS ELSE t - start

can_transceiver_init ==
  [state |-> CAN_STATE_OFF, driver_enabled |-> FALSE,
   receiver_enabled |-> FALSE, canh_voltage |-> 0, canl_voltage |-> 0,
   rxd_output |-> TRUE, rxd_pending |-> FALSE, rxd_pending_value |-> TRUE,
   rxd_update_time |-> 0, lba |-> 0]

can_transceiver_get_bus_state(vdiff) ==
  IF vdiff >= VDIFF_DOMINANT_THRESHOLD THEN BUS_STATE_DOMINANT
  ELSE IF vdiff <= VDIFF_RECESSIVE_THRESHOLD THEN BUS_STATE_RECESSIVE
  ELSE BUS_STATE_INDETERMINATE

\* the voltages can_transceiver_drive_bus returns (and stores)
can_transceiver_drive_bus(tr, dominant) ==
  IF dominant /\ tr.driver_enabled
    THEN [tr EXCEPT !.canh_voltage = CANH_DOMINANT_VOLTAGE,
                    !.canl_voltage = CANL_DOMINANT_VOLTAGE]
    ELSE [tr EXCEPT !.canh_voltage = CANH_RECESSIVE_VOLTAGE,
                    !.canl_voltage = CANL_RECESSIVE_VOLTAGE]

\* can_enables with the driver left enabled in Silent mode
can_enables_driver_in_silent(state, mode) ==
  CASE state = CAN_STATE_OFF -> <<FALSE, FALSE>>
    [] state \in {CAN_STATE_AUTONOMOUS_INACTIVE, CAN_STATE_AUTONOMOUS_ACTIVE}
         -> <<FALSE, TRUE>>
    [] OTHER -> IF mode = MODE_NORMAL \/ mode = MODE_SILENT
                  THEN <<TRUE, TRUE>>
                ELSE <<FALSE, FALSE>>

\* driver/receiver enablement from the state and the mode
can_enables(state, mode) ==
  CASE state = CAN_STATE_OFF -> <<FALSE, FALSE>>
    [] state \in {CAN_STATE_AUTONOMOUS_INACTIVE, CAN_STATE_AUTONOMOUS_ACTIVE}
         -> <<FALSE, TRUE>>
    [] OTHER -> IF mode = MODE_NORMAL THEN <<TRUE, TRUE>>
                ELSE IF mode = MODE_SILENT THEN <<FALSE, TRUE>>
                ELSE <<FALSE, FALSE>>

can_transceiver_update_state_machine(tr, mode, bus_state, vsup_valid, t) ==
  LET lba1 == IF bus_state = BUS_STATE_DOMINANT THEN t ELSE tr.lba
      lba2 == IF lba1 = 0 THEN t ELSE lba1
      active_mode == mode = MODE_NORMAL \/ mode = MODE_SILENT
      next ==
        CASE tr.state = CAN_STATE_OFF ->
               IF vsup_valid THEN CAN_STATE_AUTONOMOUS_INACTIVE
               ELSE CAN_STATE_OFF
          [] tr.state = CAN_STATE_AUTONOMOUS_INACTIVE ->
               IF ~vsup_valid THEN CAN_STATE_OFF
               ELSE IF active_mode THEN CAN_STATE_ACTIVE
               ELSE IF bus_state = BUS_STATE_DOMINANT
                 THEN CAN_STATE_AUTONOMOUS_ACTIVE
               ELSE CAN_STATE_AUTONOMOUS_INACTIVE
          [] tr.state = CAN_STATE_AUTONOMOUS_ACTIVE ->
               IF ~vsup_valid THEN CAN_STATE_OFF
               ELSE IF active_mode THEN CAN_STATE_ACTIVE
               ELSE IF elapsed_ns(t, lba2) > CAN_TSILENCE_NS
                 THEN CAN_STATE_AUTONOMOUS_INACTIVE
               ELSE CAN_STATE_AUTONOMOUS_ACTIVE
          [] OTHER ->
               IF ~vsup_valid THEN CAN_STATE_OFF
               ELSE IF ~active_mode
                 THEN IF bus_state = BUS_STATE_DOMINANT
                         \/ elapsed_ns(t, lba2) <= CAN_TSILENCE_NS
                        THEN CAN_STATE_AUTONOMOUS_ACTIVE
                        ELSE CAN_STATE_AUTONOMOUS_INACTIVE
               ELSE CAN_STATE_ACTIVE
      \* the AUTONOMOUS_INACTIVE -> AUTONOMOUS_ACTIVE branch stamps lba again
      en == can_enables(next, mode)
  IN  [tr EXCEPT !.state = next, !.lba = lba2,
                 !.driver_enabled = en[1], !.receiver_enabled = en[2]]

\* mutant: the first evaluation of the state machine is left out
can_transceiver_update_drive_only(tr, mode, txd_low, canh_voltage, canl_voltage, t) ==
  can_transceiver_drive_bus(tr, txd_low)

can_transceiver_update(tr, mode, txd_low, canh_voltage, canl_voltage, t) ==
  can_transceiver_drive_bus(
    can_transceiver_update_state_machine(
      tr, mode, can_transceiver_get_bus_state(canh_voltage - canl_voltage),
      mode # MODE_OFF, t),
    txd_low)

\* mutant: the lower bound of the loop-1 range is used for both directions
rxd_prop_delay_loop1_min(target_rxd) == TPROP_LOOP1_MIN_NS

\* the propagation delay by direction: the middle of the documented range
rxd_prop_delay(target_rxd) ==
  IF ~target_rxd
    THEN (TPROP_LOOP1_MIN_NS + TPROP_LOOP1_MAX_NS) \div 2
    ELSE (TPROP_LOOP2_MIN_NS + TPROP_LOOP2_MAX_NS) \div 2

can_transceiver_update_rxd(tr, bus_state, current_time, schedule_time) ==
  IF ~tr.receiver_enabled
    THEN [tr EXCEPT !.rxd_output = TRUE, !.rxd_pending = FALSE]
  ELSE
    LET apply == tr.rxd_pending /\ current_time >= tr.rxd_update_time
        t1 == IF apply
                THEN [tr EXCEPT !.rxd_output = tr.rxd_pending_value,
                                !.rxd_pending = FALSE]
                ELSE tr
        target_rxd == bus_state # BUS_STATE_DOMINANT
        needs_update == target_rxd # t1.rxd_output
        pending_is_stale ==
          t1.rxd_pending /\ t1.rxd_pending_value # target_rxd
        prop_delay == rxd_prop_delay(target_rxd)
        update_time == schedule_time + prop_delay
    IN  IF bus_state = BUS_STATE_INDETERMINATE THEN t1
        ELSE IF needs_update /\ (~t1.rxd_pending \/ pending_is_stale)
          THEN IF update_time <= current_time
                 THEN [t1 EXCEPT !.rxd_output = target_rxd,
                                 !.rxd_pending = FALSE]
                 ELSE [t1 EXCEPT !.rxd_pending = TRUE,
                                 !.rxd_pending_value = target_rxd,
                                 !.rxd_update_time = update_time]
        ELSE t1

(***************************************************************************)
(* Bus bias controller (src/bus_bias_controller.cpp)                       *)
(***************************************************************************)
bus_bias_controller_init == [state |-> BIAS_STATE_OFF, last_bus_activity |-> 0]

bus_bias_controller_update(bb, can_state, bus_state, t) ==
  LET a1 == IF bus_state = BUS_STATE_DOMINANT THEN t ELSE bb.last_bus_activity
      a2 == IF a1 = 0 THEN t ELSE a1
  IN  [state |-> CASE can_state = CAN_STATE_OFF -> BIAS_STATE_OFF
                   [] can_state = CAN_STATE_AUTONOMOUS_INACTIVE
                        -> BIAS_STATE_AUTONOMOUS_INACTIVE
                   [] can_state = CAN_STATE_AUTONOMOUS_ACTIVE
                        -> BIAS_STATE_AUTONOMOUS_ACTIVE
                   [] OTHER -> BIAS_STATE_ACTIVE,
       last_bus_activity |-> a2]

\* the bias voltage written to both bus lines (vcc / 2.0 in the active state)
bus_bias_controller_get_bias(bb, vcc) ==
  CASE bb.state = BIAS_STATE_OFF -> 0
    [] bb.state = BIAS_STATE_AUTONOMOUS_INACTIVE -> BIAS_VOLTAGE_GND
    [] bb.state = BIAS_STATE_AUTONOMOUS_ACTIVE -> BIAS_VOLTAGE_2_5V
    [] OTHER -> vcc \div 2

(***************************************************************************)
(* Fault detector (src/fault_detector.cpp).  The function-local static     *)
(* prev_bus_state of fault_detector_check_cbf is the field prev_bus_state. *)
(***************************************************************************)
fault_detector_init ==
  [txdclp_flag |-> FALSE, txddto_flag |-> FALSE, txdrxd_flag |-> FALSE,
   candom_flag |-> FALSE, tsd_flag |-> FALSE, cbf_flag |-> FALSE,
   txd_dominant_start |-> NoTime, bus_dominant_start |-> NoTime,
   cbf_transition_count |-> 0, prev_bus_state |-> BUS_STATE_RECESSIVE]

\* mutant: the TXD level is not looked at
fault_detector_check_txdclp_any_level(st, txd_low, entering_mode) ==
  IF entering_mode = MODE_NORMAL THEN [st EXCEPT !.txdclp_flag = TRUE] ELSE st

fault_detector_check_txdclp(st, txd_low, entering_mode) ==
  IF entering_mode = MODE_NORMAL /\ txd_low
    THEN [st EXCEPT !.txdclp_flag = TRUE]
    ELSE st

fault_detector_check_txddto(st, txd_low, t) ==
  IF txd_low
    THEN IF st.txd_dominant_start = NoTime
           THEN [st EXCEPT !.txd_dominant_start = t]
           ELSE IF t - st.txd_dominant_start >= TTXDDTO_MIN_NS
                  THEN [st EXCEPT !.txddto_flag = TRUE]
                  ELSE st
    ELSE [st EXCEPT !.txd_dominant_start = NoTime]

\* shares txd_dominant_start with fault_detector_check_txddto
fault_detector_check_txdrxd(st, txd_low, rxd_low, t) ==
  IF txd_low = rxd_low
    THEN IF st.txd_dominant_start = NoTime
           THEN [st EXCEPT !.txd_dominant_start = t]
           ELSE IF t - st.txd_dominant_start >= TTXDDTO_MIN_NS
                  THEN [st EXCEPT !.txdrxd_flag = TRUE]
                  ELSE st
    ELSE [st EXCEPT !.txd_dominant_start = NoTime]

fault_detector_check_candom(st, bus_state, t) ==
  IF bus_state = BUS_STATE_DOMINANT
    THEN IF st.bus_dominant_start = NoTime
           THEN [st EXCEPT !.bus_dominant_start = t]
           ELSE IF t - st.bus_dominant_start >= TBUSDOM_MIN_NS
                  THEN [st EXCEPT !.candom_flag = TRUE]
                  ELSE st
    ELSE [st EXCEPT !.bus_dominant_start = NoTime]

fault_detector_check_tsd(st, tj_temperature) ==
  [st EXCEPT !.tsd_flag = (tj_temperature >= TSDR_CELSIUS)]

\* int cbf_transition_count: the increment stops mattering once the flag is
\* set, so the count is kept at most CbfCountCap
CbfCountCap == 4

fault_detector_check_cbf(st, bus_state, mode) ==
  IF mode # MODE_NORMAL /\ mode # MODE_SILENT
    THEN [st EXCEPT !.cbf_transition_count = 0]
    ELSE
      LET hit == st.prev_bus_state = BUS_STATE_DOMINANT
                 /\ bus_state = BUS_STATE_RECESSIVE
          n == IF hit THEN st.cbf_transition_count + 1
               ELSE st.cbf_transition_count
      IN  [st EXCEPT !.cbf_transition_count =
                        IF n > CbfCountCap THEN CbfCountCap ELSE n,
                     !.cbf_flag = IF hit /\ n >= 4 THEN TRUE ELSE st.cbf_flag,
                     !.prev_bus_state = bus_state]

fault_detector_update(st, txd_low, rxd_low, bus_state, tj_temperature, t, mode) ==
  fault_detector_check_cbf(
    fault_detector_check_tsd(
      fault_detector_check_candom(
        fault_detector_check_txdrxd(
          fault_detector_check_txddto(st, txd_low, t),
          txd_low, rxd_low, t),
        bus_state, t),
      tj_temperature),
    bus_state, mode)

\* mutant: the thermal flag is left out of the aggregation
fault_detector_has_any_fault_no_tsd(st) ==
  st.txdclp_flag \/ st.txddto_flag \/ st.txdrxd_flag \/ st.candom_flag
    \/ st.cbf_flag

fault_detector_has_any_fault(st) ==
  st.txdclp_flag \/ st.txddto_flag \/ st.txdrxd_flag \/ st.candom_flag
    \/ st.tsd_flag \/ st.cbf_flag

fault_detector_get_nfault_state(st) == fault_detector_has_any_fault(st)

\* mutant: the dominant timeout does not disable the driver
fault_detector_should_disable_driver_no_txddto(st) ==
  st.txdclp_flag \/ st.txdrxd_flag \/ st.tsd_flag

fault_detector_should_disable_driver(st) ==
  st.txdclp_flag \/ st.txddto_flag \/ st.txdrxd_flag \/ st.tsd_flag

(***************************************************************************)
(* INH controller (inh_controller.c)                                       *)
(***************************************************************************)
inh_controller_init ==
  [inh_enabled |-> TRUE, inh_output_high |-> FALSE, wake_event_time |-> 0,
   pending_inh_assertion |-> FALSE]

\* inh_controller_update without the override by the mask input
inh_controller_update_mask_ignored(c, mode, inh_mask_high, wake_event, t) ==
  LET wet == IF wake_event THEN t ELSE c.wake_event_time
      pend0 == wake_event \/ c.pending_inh_assertion
      pend == pend0 /\ ~(elapsed_ns(t, wet) >= TINH_SLP_STB_NS)
      should_be_high == mode \in {MODE_NORMAL, MODE_SILENT, MODE_STANDBY}
  IN  [inh_enabled |-> TRUE,
       inh_output_high |-> IF should_be_high /\ pend THEN FALSE
                           ELSE should_be_high,
       wake_event_time |-> wet,
       pending_inh_assertion |-> pend]

inh_controller_update(c, mode, inh_mask_high, wake_event, t) ==
  IF inh_mask_high
    THEN [c EXCEPT !.inh_enabled = FALSE, !.inh_output_high = FALSE,
                   !.pending_inh_assertion = FALSE]
    ELSE
      LET wet == IF wake_event THEN t ELSE c.wake_event_time
          pend0 == wake_event \/ c.pending_inh_assertion
          pend == pend0 /\ ~(elapsed_ns(t, wet) >= TINH_SLP_STB_NS)
          should_be_high ==
            mode \in {MODE_NORMAL, MODE_SILENT, MODE_STANDBY}
      IN  [inh_enabled |-> TRUE,
           inh_output_high |-> IF should_be_high /\ pend THEN FALSE
                               ELSE should_be_high,
           wake_event_time |-> wet,
           pending_inh_assertion |-> pend]

\* <<state, voltage>> written to the INH pin
inh_controller_get_pin_state(c) ==
  IF ~c.inh_enabled \/ ~c.inh_output_high
    THEN <<PIN_STATE_HIGH_IMPEDANCE, 0>>
    ELSE <<PIN_STATE_HIGH, INH_HIGH_VOLTAGE>>

(***************************************************************************)
(* Simulator instance (tcan1463q1_simulator.c)                             *)
(***************************************************************************)
VARIABLES
  pins,            \* sim->pins: PinType -> [state, voltage]
  timing,          \* sim->timing
  mode_state,      \* sim->mode_state
  can_transceiver, \* sim->can_transceiver, with last_bus_activity_time
  power_state,     \* sim->power_state
  fault_state,     \* sim->fault_state, with check_cbf's prev_bus_state
  wake_state,      \* sim->wake_state
  bus_bias,        \* sim->bus_bias
  inh_controller,  \* *sim->inh_controller
  tj_temperature,  \* sim->tj_temperature
  nsteps,          \* number of calls of tcan1463q1_simulator_step so far
  last,            \* locals of the latest step: old_mode, wakerq, ...
  txd_mon,         \* history of the TXD input, see TxdMonitor
  mon,             \* history of the samples taken by the steps, see MonInit
  timing_params,   \* sim->timing_params
  callbacks,       \* sim->callbacks: event type -> head of its list
  cb_heap,         \* the EventCallbackEntry objects on the heap
  snapshot,        \* the SimulatorSnapshot the caller holds
  frame            \* the activation of tcan1463q1_simulator_run_until

vars ==
  <<pins, timing, mode_state, can_transceiver, power_state, fault_state,
    wake_state, bus_bias, inh_controller, tj_temperature, nsteps, last,
    txd_mon, mon, timing_params, callbacks, cb_heap, snapshot, frame>>

\* the configuration, the out-of-band resources and the caller's frame,
\* which the pin, the temperature and the step operations leave alone
api_vars == <<timing_params, callbacks, cb_heap, snapshot, frame>>

timing_engine_init == [current_time_ns |-> 0, last_update_ns |-> 0]

timing_engine_advance(e, delta_ns) ==
  [current_time_ns |-> e.current_time_ns + delta_ns,
   last_update_ns |-> e.current_time_ns]

\* uint64_t at its full width: four 16-bit limbs, the most significant
\* first
U64_LIMB == 65536

U64_ZERO == <<0, 0, 0, 0>>

U64_MAX == <<U64_LIMB - 1, U64_LIMB - 1, U64_LIMB - 1, U64_LIMB - 1>>

\* the sum of two uint64_t as an integer: five limbs, the first is the carry
u64_sum(a, b) ==
  LET s4 == a[4] + b[4]
      s3 == a[3] + b[3] + s4 \div U64_LIMB
      s2 == a[2] + b[2] + s3 \div U64_LIMB
      s1 == a[1] + b[1] + s2 \div U64_LIMB
  IN  <<s1 \div U64_LIMB, s1 % U64_LIMB, s2 % U64_LIMB, s3 % U64_LIMB,
        s4 % U64_LIMB>>

\* a + b in uint64_t: the carry is dropped
u64_add(a, b) == Tail(u64_sum(a, b))

u64_less(a, b) ==
  \E i \in 1..4 : a[i] < b[i] /\ \A j \in 1..(i - 1) : a[j] = b[j]

\* the timing engine at the full width of its fields
timing_engine_init_u64 ==
  [current_time_ns |-> U64_ZERO, last_update_ns |-> U64_ZERO]

timing_engine_advance_u64(e, delta_ns) ==
  [current_time_ns |-> u64_add(e.current_time_ns, delta_ns),
   last_update_ns |-> e.current_time_ns]

timing_engine_get_time_u64(e) == e.current_time_ns

BusStateOfPins(ps) ==
  can_transceiver_get_bus_state(ps[PIN_CANH].voltage - ps[PIN_CANL].voltage)

\* Timing parameters: each field in hundredths of the unit it is named for
timing_params_default ==
  [tuv_ms |-> 22500, ttxddto_ms |-> 250, tbusdom_ms |-> 260,
   twk_filter_us |-> 115, twk_timeout_ms |-> 140, tsilence_s |-> 90]

tcan1463q1_simulator_validate_timing_parameters(params) ==
  /\ ~(params.tuv_ms < 10000 \/ params.tuv_ms > 35000)
  /\ ~(params.ttxddto_ms < 120 \/ params.ttxddto_ms > 380)
  /\ ~(params.tbusdom_ms < 140 \/ params.tbusdom_ms > 380)
  /\ ~(params.twk_filter_us < 50 \/ params.twk_filter_us > 180)
  /\ ~(params.twk_timeout_ms < 80 \/ params.twk_timeout_ms > 200)
  /\ ~(params.tsilence_s < 60 \/ params.tsilence_s > 120)

\* Event callbacks.  An EventCallbackEntry lives on the heap at an address
\* in NodeIds; a freed entry keeps its content until the address is handed
\* out again.
EVENT_MODE_CHANGE == 0
EVENT_FAULT_DETECTED == 1
EVENT_WAKE_UP == 2
EVENT_PIN_CHANGE == 3
EVENT_FLAG_CHANGE == 4
EventTypeCount == 5
EventTypes == 0..(EventTypeCount - 1)

NullPtr == 0
NoCallback == "NULL"
MaxCallbackNodes == 2
NodeIds == 1..MaxCallbackNodes

callbacks_init == [e \in EventTypes |-> NullPtr]

cb_heap_init ==
  [n \in NodeIds |-> [callback |-> NoCallback, next |-> NullPtr,
                      live |-> FALSE]]

\* the entries met by following next from head, at most fuel of them
RECURSIVE cb_chain(_, _, _)
cb_chain(heap, head, fuel) ==
  IF head = NullPtr \/ fuel = 0 THEN <<>>
  ELSE <<head>> \o cb_chain(heap, heap[head].next, fuel - 1)

\* the walk from head meets live entries only and ends at the null pointer
cb_chain_sound(heap, head) ==
  LET c == cb_chain(heap, head, MaxCallbackNodes)
  IN  /\ \A i \in 1..Len(c) : heap[c[i]].live
      /\ \A i, j \in 1..Len(c) : i # j => c[i] # c[j]
      /\ (c = <<>> \/ heap[c[Len(c)]].next = NullPtr)

\* the callbacks fire_event invokes for an event of the type, in order
fire_event(heap, cbs, event_type) ==
  IF event_type < 0 \/ event_type >= EventTypeCount THEN <<>>
  ELSE LET c == cb_chain(heap, cbs[event_type], MaxCallbackNodes)
       IN  [i \in 1..Len(c) |-> heap[c[i]].callback]

\* the snapshot: a byte copy of the simulator structure; the INH controller
\* is behind a pointer, and last_bus_activity_time and prev_bus_state are
\* static objects, so their contents are not in it
snapshot_none == [valid |-> FALSE]

\* no call of tcan1463q1_simulator_run_until is in progress; ret is the
\* value the latest call returned
NoCondition == "NULL"

frame_idle ==
  [pc |-> "idle", condition |-> NoCondition, timeout_ns |-> 0,
   start_time |-> 0, elapsed |-> 0, ret |-> FALSE]

\* what tcan1463q1_simulator_get_mode, _get_flags, _get_pin for each pin
\* and _get_timing_parameters return
Queryable ==
  [mode |-> mode_state.current_mode,
   flags |-> [pwron |-> power_state.pwron_flag,
              wakerq |-> wake_state.wakerq_flag,
              wakesr |-> wake_state.wakesr_flag,
              uvsup |-> power_state.uvsup_flag,
              uvcc |-> power_state.uvcc_flag,
              uvio |-> power_state.uvio_flag,
              cbf |-> fault_state.cbf_flag,
              txdclp |-> fault_state.txdclp_flag,
              txddto |-> fault_state.txddto_flag,
              txdrxd |-> fault_state.txdrxd_flag,
              candom |-> fault_state.candom_flag,
              tsd |-> fault_state.tsd_flag],
   pins |-> pins,
   timing_params |-> timing_params]

\* what a client sees of the behaviour: the mode, the flags and the output
\* pins
Outputs ==
  [mode |-> Queryable.mode, flags |-> Queryable.flags,
   rxd |-> pins[PIN_RXD], nfault |-> pins[PIN_NFAULT], inh |-> pins[PIN_INH],
   canh |-> pins[PIN_CANH], canl |-> pins[PIN_CANL]]

\* The history kept beside the simulator's state, for stating properties
\* over spans of steps.  Each specification's step maintains the fields it
\* needs and leaves the others as they are.
\*   bus_applied  the environment has written a dominant level to CANH/CANL
\*                since the latest step
\*   bus_since    the time at which the environment first applied the
\*                dominant level of a span in which it did so before every
\*                step and the mode was Normal or Silent before and after
\*                every step (NoTime outside such a span)
\*   bus_first    the end of the first step of such a span with the mode
\*                Normal and TXD high throughout (NoTime outside)
\*   txd_low_since  the time of the first of the consecutive steps, up to
\*                the latest one, that sampled TXD low (NoTime when the
\*                latest step sampled TXD high)
\*   eq_since     the time of the first of the consecutive steps, up to the
\*                latest one, in which the TXD and RXD levels handed to the
\*                fault detector were equal (NoTime when they differed)
\*   last_diff    the time of the latest step in which they differed
\*   cbf_prev_dom the latest step ended in Normal or Silent and handed a
\*                dominant bus state to the fault detector
\*   cbf_seen     the number of steps, in the current unbroken run of steps
\*                ending in Normal or Silent, that handed a recessive bus
\*                state right after a step of the run that handed a
\*                dominant one (0 when the latest step ended in any other
\*                mode)
\*   inh_wake     the end of the step that took the mode from Sleep to
\*                Standby, while every step since sampled INH_MASK not high
\*                and ended in Standby, Normal or Silent (NoTime otherwise)
\*   wup_rec_seen the wake handler has been handed a recessive bus state
\*                since the pattern machine last left idle
\*   call         the entries <<pin, state, voltage>> of the latest call of
\*                set_pin (one entry) or set_pins, << >> after any other
\*                operation
\*   ret          the value that call returned
\*   op           the name of the latest operation, where a specification
\*                records it
\*   nsnap        the number of snapshots taken
\*   snap_view    what the queries returned when the snapshot was taken
\*   fired        the callbacks invoked by the latest step, in order
\*   others       the number of other instances created so far
\*   other_pending  the first other instance was created since the latest
\*                step of this instance, and none before
\*   solo_lba     last_bus_activity_time as it was when the first other
\*                instance was created
\*   vcc_below_since  the time of the first of the latest run of updates
\*                that sampled VCC below its falling threshold, while the
\*                latest update is one of them (NoTime otherwise)
\*   vio_below_since  the same for VIO
\*   run_steps    the number of steps the latest call of run_until has made
\*   run_seen     the condition held at one of the checks of that call
\*   advances     the number of calls of timing_engine_advance by a client
\*   delta        the delta of the latest of them
\*   rep_phase    "before" the reference point (a snapshot, or a new
\*                instance), "record" while the inputs applied from it are
\*                recorded, "free" once they no longer are, "replay" after
\*                the return to the reference point (a restore, or a reset)
\*   rep_in       the recorded inputs: <<"set_pins", values>> or
\*                <<"step", delta_ns>>
\*   rep_out      what the instance showed after each of them
\*   rep_pos      the next recorded input to apply again
\*   rep_other    the number of inputs that were not recorded
\*   cfg          <<vsup, vcc, vio>> of the latest call of
\*                set_supply_voltages or configure, << >> after any other
\*                operation
MonInit ==
  [bus_applied |-> FALSE, bus_since |-> NoTime, bus_first |-> NoTime,
   txd_low_since |-> NoTime, eq_since |-> NoTime, last_diff |-> NoTime,
   cbf_prev_dom |-> FALSE, cbf_seen |-> 0, inh_wake |-> NoTime,
   wup_rec_seen |-> FALSE, call |-> <<>>, ret |-> TRUE, op |-> "none",
   nsnap |-> 0, snap_view |-> <<>>, fired |-> <<>>,
   others |-> 0, other_pending |-> FALSE, solo_lba |-> 0,
   vcc_below_since |-> NoTime, vio_below_since |-> NoTime,
   run_steps |-> 0, run_seen |-> FALSE, advances |-> 0, delta |-> <<>>,
   rep_phase |-> "before", rep_in |-> <<>>, rep_out |-> <<>>, rep_pos |-> 1,
   rep_other |-> 0, cfg |-> <<>>]

\* tcan1463q1_simulator_create / tcan1463q1_simulator_reset
Init ==
  /\ pins = pin_manager_init
  /\ timing = timing_engine_init
  /\ mode_state = mode_controller_init
  /\ can_transceiver = can_transceiver_init
  /\ power_state = power_monitor_init
  /\ fault_state = fault_detector_init
  /\ wake_state = wake_handler_init
  /\ bus_bias = bus_bias_controller_init
  /\ inh_controller = inh_controller_init
  /\ tj_temperature = 25
  /\ nsteps = 0
  /\ last = [old_mode |-> MODE_OFF, wakerq |-> FALSE, lwu_edge |-> FALSE,
             drive |-> FALSE, txd_low |-> FALSE]
  /\ txd_mon = [armed |-> FALSE, change_time |-> 0, to_low |-> FALSE]
  /\ mon = MonInit
  /\ timing_params = timing_params_default
  /\ callbacks = callbacks_init
  /\ cb_heap = cb_heap_init
  /\ snapshot = snapshot_none
  /\ frame = frame_idle

\* what a step does to the TXD history: the measurement started by a TXD
\* change stays armed only while every step since ran in Normal mode with
\* the driver driving the bus from TXD
TxdMonitorIdle == [armed |-> FALSE, change_time |-> 0, to_low |-> FALSE]

TxdMonitorStep(m, new_mode, drive) ==
  IF m.armed /\ new_mode = MODE_NORMAL /\ drive THEN m ELSE TxdMonitorIdle

\* what a set-pin call does to the TXD history: a change of the TXD level
\* made in Normal mode, with the driver enabled, no driver-disabling fault,
\* no RXD update pending and RXD showing the level of the bus, starts a
\* measurement at the current time; any other TXD change ends it
TxdMonitorSet(m, ps, ps2) ==
  LET was_low == ps[PIN_TXD].state = PIN_STATE_LOW
      is_low == ps2[PIN_TXD].state = PIN_STATE_LOW
  IN  IF was_low = is_low THEN m
      ELSE IF /\ mode_state.current_mode = MODE_NORMAL
              /\ can_transceiver.driver_enabled
              /\ ~fault_detector_should_disable_driver(fault_state)
              /\ tj_temperature < TSDR_CELSIUS
              /\ ~can_transceiver.rxd_pending
              /\ can_transceiver.rxd_output = ~was_low
              /\ nsteps > 0 /\ last.drive
             THEN [armed |-> TRUE,
                   change_time |-> timing.current_time_ns,
                   to_low |-> is_low]
             ELSE TxdMonitorIdle

tcan1463q1_simulator_set_pin(pin, state, voltage) ==
  /\ pins' = pin_set_value(pins, pin, state, voltage)
  /\ txd_mon' = TxdMonitorSet(txd_mon, pins, pins')
  /\ UNCHANGED <<timing, mode_state, can_transceiver, power_state,
                 fault_state, wake_state, bus_bias, inh_controller,
                 tj_temperature, nsteps, last, api_vars>>

\* the value tcan1463q1_simulator_set_pin returns: that of pin_set_value
tcan1463q1_simulator_set_pin_result(ps, pin, state, voltage) ==
  pin_validate_voltage(ps, pin, voltage)

\* the pins after the calls of tcan1463q1_simulator_set_pin that
\* tcan1463q1_simulator_set_pins makes, in the order of the array
RECURSIVE set_pins_value(_, _)
set_pins_value(ps, values) ==
  IF values = <<>> THEN ps
  ELSE set_pins_value(
         pin_set_value(ps, Head(values)[1], Head(values)[2], Head(values)[3]),
         Tail(values))

\* the value tcan1463q1_simulator_set_pins returns: all_success
RECURSIVE set_pins_result(_, _)
set_pins_result(ps, values) ==
  IF values = <<>> THEN TRUE
  ELSE /\ tcan1463q1_simulator_set_pin_result(
            ps, Head(values)[1], Head(values)[2], Head(values)[3])
       /\ set_pins_result(
            pin_set_value(ps, Head(values)[1], Head(values)[2],
                          Head(values)[3]),
            Tail(values))

tcan1463q1_simulator_set_pins(values) ==
  /\ pins' = set_pins_value(pins, values)
  /\ txd_mon' = TxdMonitorSet(txd_mon, pins, pins')
  /\ UNCHANGED <<timing, mode_state, can_transceiver, power_state,
                 fault_state, wake_state, bus_bias, inh_controller,
                 tj_temperature, nsteps, last, api_vars>>

tcan1463q1_simulator_validate_temperature(t) == t >= -40 /\ t <= 200

tcan1463q1_simulator_set_temperature(t) ==
  /\ tj_temperature' =
       IF tcan1463q1_simulator_validate_temperature(t) THEN t
       ELSE tj_temperature
  /\ txd_mon' = IF t < TSDR_CELSIUS THEN txd_mon ELSE TxdMonitorIdle
  /\ UNCHANGED <<pins, timing, mode_state, can_transceiver, power_state,
                 fault_state, wake_state, bus_bias, inh_controller, nsteps,
                 last, api_vars>>

tcan1463q1_simulator_validate_vsup(vsup) == vsup >= 0 /\ vsup <= 40000

tcan1463q1_simulator_validate_vcc(vcc) == vcc >= 0 /\ vcc <= 6000

tcan1463q1_simulator_validate_vio(vio) == vio >= 0 /\ vio <= 5500

\* the value tcan1463q1_simulator_set_supply_voltages returns
set_supply_voltages_result(vsup, vcc, vio) ==
  /\ tcan1463q1_simulator_validate_vsup(vsup)
  /\ tcan1463q1_simulator_validate_vcc(vcc)
  /\ tcan1463q1_simulator_validate_vio(vio)

\* the three values go to the fields of the power monitor, not to the pins
tcan1463q1_simulator_set_supply_voltages(vsup, vcc, vio) ==
  /\ power_state' =
       IF set_supply_voltages_result(vsup, vcc, vio)
         THEN [power_state EXCEPT !.vsup = vsup, !.vcc = vcc, !.vio = vio]
         ELSE power_state
  /\ UNCHANGED <<pins, timing, mode_state, can_transceiver, fault_state,
                 wake_state, bus_bias, inh_controller, tj_temperature,
                 nsteps, last, txd_mon, api_vars>>

\* tcan1463q1_simulator_configure validates nothing; the bus parameters it
\* stores are read by nothing
tcan1463q1_simulator_configure(vsup, vcc, vio, t) ==
  /\ power_state' = [power_state EXCEPT !.vsup = vsup, !.vcc = vcc,
                                        !.vio = vio]
  /\ tj_temperature' = t
  /\ txd_mon' = IF t < TSDR_CELSIUS THEN txd_mon ELSE TxdMonitorIdle
  /\ UNCHANGED <<pins, timing, mode_state, can_transceiver, fault_state,
                 wake_state, bus_bias, inh_controller, nsteps, last,
                 api_vars>>

tcan1463q1_simulator_set_timing_parameters(params) ==
  /\ timing_params' =
       IF tcan1463q1_simulator_validate_timing_parameters(params)
         THEN params ELSE timing_params
  /\ UNCHANGED <<pins, timing, mode_state, can_transceiver, power_state,
                 fault_state, wake_state, bus_bias, inh_controller,
                 tj_temperature, nsteps, last, txd_mon, callbacks, cb_heap,
                 snapshot, frame>>

tcan1463q1_simulator_snapshot ==
  /\ snapshot' =
       [valid |-> TRUE, pins |-> pins, mode_state |-> mode_state,
        can_transceiver |-> can_transceiver, power_state |-> power_state,
        fault_state |-> fault_state, wake_state |-> wake_state,
        bus_bias |-> bus_bias, timing |-> timing,
        tj_temperature |-> tj_temperature, timing_params |-> timing_params,
        callbacks |-> callbacks]
  /\ UNCHANGED <<pins, timing, mode_state, can_transceiver, power_state,
                 fault_state, wake_state, bus_bias, inh_controller,
                 tj_temperature, nsteps, last, txd_mon, timing_params,
                 callbacks, cb_heap, frame>>

\* tcan1463q1_simulator_restore without the pins and the timing parameters
tcan1463q1_simulator_restore_core_only(snap) ==
  IF ~snap.valid
    THEN UNCHANGED <<pins, timing, mode_state, can_transceiver, power_state,
                     fault_state, wake_state, bus_bias, inh_controller,
                     tj_temperature, nsteps, last, txd_mon, timing_params,
                     callbacks, cb_heap, snapshot, frame>>
    ELSE
      /\ mode_state' = snap.mode_state
      /\ can_transceiver' =
           [snap.can_transceiver EXCEPT !.lba = can_transceiver.lba]
      /\ power_state' = snap.power_state
      /\ fault_state' =
           [snap.fault_state EXCEPT
              !.prev_bus_state = fault_state.prev_bus_state]
      /\ wake_state' = snap.wake_state
      /\ bus_bias' = snap.bus_bias
      /\ timing' = snap.timing
      /\ tj_temperature' = snap.tj_temperature
      /\ callbacks' = snap.callbacks
      /\ txd_mon' = TxdMonitorIdle
      /\ UNCHANGED <<pins, timing_params, inh_controller, cb_heap, snapshot,
                     nsteps, last, frame>>

\* the value tcan1463q1_simulator_restore returns
tcan1463q1_simulator_restore_result(snap) == snap.valid

tcan1463q1_simulator_restore(snap) ==
  IF ~snap.valid
    THEN UNCHANGED <<pins, timing, mode_state, can_transceiver, power_state,
                     fault_state, wake_state, bus_bias, inh_controller,
                     tj_temperature, nsteps, last, txd_mon, timing_params,
                     callbacks, cb_heap, snapshot, frame>>
    ELSE
      /\ pins' = snap.pins
      /\ mode_state' = snap.mode_state
      /\ can_transceiver' =
           [snap.can_transceiver EXCEPT !.lba = can_transceiver.lba]
      /\ power_state' = snap.power_state
      /\ fault_state' =
           [snap.fault_state EXCEPT
              !.prev_bus_state = fault_state.prev_bus_state]
      /\ wake_state' = snap.wake_state
      /\ bus_bias' = snap.bus_bias
      /\ timing' = snap.timing
      /\ tj_temperature' = snap.tj_temperature
      /\ timing_params' = snap.timing_params
      /\ callbacks' = snap.callbacks
      /\ txd_mon' = TxdMonitorIdle
      /\ UNCHANGED <<inh_controller, cb_heap, snapshot, nsteps, last, frame>>

\* the value tcan1463q1_simulator_register_callback returns
register_callback_result(event_type, callback) ==
  /\ callback # NoCallback
  /\ ~(event_type < 0 \/ event_type >= EventTypeCount)

\* malloc hands out any address that holds no live entry
tcan1463q1_simulator_register_callback(event_type, callback) ==
  IF ~register_callback_result(event_type, callback)
    THEN UNCHANGED <<pins, timing, mode_state, can_transceiver, power_state,
                     fault_state, wake_state, bus_bias, inh_controller,
                     tj_temperature, nsteps, last, txd_mon, timing_params,
                     callbacks, cb_heap, snapshot, frame>>
    ELSE
      \E entry \in {n \in NodeIds : ~cb_heap[n].live} :
        /\ cb_heap' = [cb_heap EXCEPT
                         ![entry] = [callback |-> callback,
                                     next |-> callbacks[event_type],
                                     live |-> TRUE]]
        /\ callbacks' = [callbacks EXCEPT ![event_type] = entry]
        /\ UNCHANGED <<pins, timing, mode_state, can_transceiver,
                       power_state, fault_state, wake_state, bus_bias,
                       inh_controller, tj_temperature, nsteps, last, txd_mon,
                       timing_params, snapshot, frame>>

\* the position in the list of the first entry with the callback, 0 if none
unregister_callback_find(heap, c, callback) ==
  LET hits == {i \in 1..Len(c) : heap[c[i]].callback = callback}
  IN  IF hits = {} THEN 0
      ELSE CHOOSE i \in hits : \A j \in hits : i <= j

\* the value tcan1463q1_simulator_unregister_callback returns when the walk
\* through the list meets live entries only
unregister_callback_result(heap, cbs, event_type, callback) ==
  /\ callback # NoCallback
  /\ ~(event_type < 0 \/ event_type >= EventTypeCount)
  /\ unregister_callback_find(
       heap, cb_chain(heap, cbs[event_type], MaxCallbackNodes), callback) # 0

\* <<callbacks, cb_heap>> after the entry at position i of the list is
\* unlinked and freed
unregister_callback_unlink(heap, cbs, event_type, c, i) ==
  <<IF i = 1 THEN [cbs EXCEPT ![event_type] = heap[c[1]].next] ELSE cbs,
    [n \in NodeIds |->
       IF n = c[i] THEN [heap[n] EXCEPT !.live = FALSE]
       ELSE IF i > 1 /\ n = c[i - 1]
         THEN [heap[n] EXCEPT !.next = heap[c[i]].next]
       ELSE heap[n]]>>

\* A walk that reaches a freed entry (a list head restored from a snapshot
\* taken before the entry was freed) reads released memory: the call then
\* either behaves as if the memory still held the entry, or finds nothing.
tcan1463q1_simulator_unregister_callback(event_type, callback, as_if_intact) ==
  LET ok == unregister_callback_result(cb_heap, callbacks, event_type,
                                       callback)
      c == cb_chain(cb_heap, callbacks[event_type], MaxCallbackNodes)
      i == unregister_callback_find(cb_heap, c, callback)
      sound == cb_chain_sound(cb_heap, callbacks[event_type])
      after == unregister_callback_unlink(cb_heap, callbacks, event_type,
                                          c, i)
  IN  /\ IF ok /\ (sound \/ as_if_intact)
           THEN callbacks' = after[1] /\ cb_heap' = after[2]
           ELSE UNCHANGED <<callbacks, cb_heap>>
      /\ UNCHANGED <<pins, timing, mode_state, can_transceiver, power_state,
                     fault_state, wake_state, bus_bias, inh_controller,
                     tj_temperature, nsteps, last, txd_mon, timing_params,
                     snapshot, frame>>

\* tcan1463q1_simulator_create called for ANOTHER instance: the new struct
\* is the caller's, and of this instance's state the call touches what
\* can_transceiver_init writes outside the struct it is handed, the
\* file-scope last_bus_activity_time
tcan1463q1_simulator_create_other ==
  /\ can_transceiver' = [can_transceiver EXCEPT !.lba = can_transceiver_init.lba]
  /\ UNCHANGED <<pins, timing, mode_state, power_state, fault_state,
                 wake_state, bus_bias, inh_controller, tj_temperature,
                 nsteps, last, txd_mon, api_vars>>

\* the transceiver state a step of delta_ns leaves, computed as the step
\* computes it, when last_bus_activity_time holds lba at its start
step_transceiver_state(lba, delta_ns) ==
  LET current_time == timing.current_time_ns + delta_ns
      old_mode == mode_state.current_mode
      power1 == power_monitor_update(
                  power_state, pins[PIN_VSUP].voltage, pins[PIN_VCC].voltage,
                  pins[PIN_VIO].voltage, current_time)
      bus_state_prev == BusStateOfPins(pins)
      wake1 == wake_handler_update(
                 wake_state, bus_state_prev,
                 pins[PIN_WAKE].state = PIN_STATE_HIGH, old_mode,
                 current_time)
      vsup_valid == power_monitor_is_vsup_valid(power1)
      mode1 == mode_controller_update(
                 mode_state, pins[PIN_EN].state = PIN_STATE_HIGH,
                 pins[PIN_NSTB].state = PIN_STATE_HIGH, vsup_valid,
                 wake_handler_get_wakerq(wake1), current_time)
      can1 == can_transceiver_update(
                [can_transceiver EXCEPT !.lba = lba], mode1.current_mode,
                pins[PIN_TXD].state = PIN_STATE_LOW, pins[PIN_CANH].voltage,
                pins[PIN_CANL].voltage, current_time)
  IN  can_transceiver_update_state_machine(
        can1, mode1.current_mode, bus_state_prev, vsup_valid,
        current_time).state

\* power_monitor_update called by a client of the power monitor, which
\* keeps the clock (timing) and hands in the three voltages
power_monitor_update_call(vsup, vcc, vio, delta_ns) ==
  /\ timing' = timing_engine_advance(timing, delta_ns)
  /\ power_state' = power_monitor_update(power_state, vsup, vcc, vio,
                                         timing.current_time_ns + delta_ns)
  /\ UNCHANGED <<pins, mode_state, can_transceiver, fault_state, wake_state,
                 bus_bias, inh_controller, tj_temperature, nsteps, last,
                 txd_mon, api_vars>>

\* timing_engine_advance called by a client of the timing engine
timing_engine_advance_call(delta_ns) ==
  /\ timing' = timing_engine_advance_u64(timing, delta_ns)
  /\ UNCHANGED <<pins, mode_state, can_transceiver, power_state, fault_state,
                 wake_state, bus_bias, inh_controller, tj_temperature,
                 nsteps, last, txd_mon, api_vars>>

\* The intermediate values of the step are bound one after the other, in
\* the order in which the source computes them.
tcan1463q1_simulator_step_body(delta_ns) ==
  LET time_before_step == timing.current_time_ns
      current_time == time_before_step + delta_ns
      txd_low == pins[PIN_TXD].state = PIN_STATE_LOW
      en_high == pins[PIN_EN].state = PIN_STATE_HIGH
      nstb_high == pins[PIN_NSTB].state = PIN_STATE_HIGH
      wake_pin_high == pins[PIN_WAKE].state = PIN_STATE_HIGH
      inh_mask_high == pins[PIN_INH_MASK].state = PIN_STATE_HIGH
      vsup == pins[PIN_VSUP].voltage
      vcc == pins[PIN_VCC].voltage
      vio == pins[PIN_VIO].voltage
      canh_voltage_prev == pins[PIN_CANH].voltage
      canl_voltage_prev == pins[PIN_CANL].voltage
      old_mode == mode_state.current_mode
  IN
  \E power1 \in {power_monitor_update(power_state, vsup, vcc, vio,
                                      current_time)} :
  \E bus_state_prev \in {BusStateOfPins(pins)} :
  \E wake1 \in {wake_handler_update(wake_state, bus_state_prev,
                                    wake_pin_high, old_mode, current_time)} :
  \E vsup_valid \in {power_monitor_is_vsup_valid(power1)} :
  \E wakerq \in {wake_handler_get_wakerq(wake1)} :
  \E mode1 \in {mode_controller_update(mode_state, en_high, nstb_high,
                                       vsup_valid, wakerq, current_time)} :
  \E new_mode \in {mode1.current_mode} :
  \E entered_normal \in {new_mode = MODE_NORMAL /\ old_mode # MODE_NORMAL} :
  \E can1 \in {can_transceiver_update(can_transceiver, new_mode, txd_low,
                                      canh_voltage_prev, canl_voltage_prev,
                                      current_time)} :
  \E can2 \in {can_transceiver_update_state_machine(
                 can1, new_mode, bus_state_prev, vsup_valid, current_time)} :
  \E bias1 \in {bus_bias_controller_update(bus_bias, can2.state,
                                           bus_state_prev, current_time)} :
  \E fault1 \in {IF entered_normal
                   THEN fault_detector_check_txdclp(fault_state, txd_low,
                                                    new_mode)
                   ELSE fault_state} :
  \E inh1 \in {inh_controller_update(inh_controller, new_mode, inh_mask_high,
                                     wakerq, current_time)} :
  \E drive \in {can2.driver_enabled
                /\ ~fault_detector_should_disable_driver(fault1)} :
  \E can3 \in {IF drive THEN can_transceiver_drive_bus(can2, txd_low)
               ELSE can2} :
  \E bias_v \in {bus_bias_controller_get_bias(bias1, vcc)} :
  \E pins1 \in
       {IF drive
          THEN pin_set_value(
                 pin_set_value(pins, PIN_CANH, PIN_STATE_ANALOG,
                               can3.canh_voltage),
                 PIN_CANL, PIN_STATE_ANALOG, can3.canl_voltage)
          ELSE IF bias1.state # BIAS_STATE_OFF
            THEN pin_set_value(
                   pin_set_value(pins, PIN_CANH, PIN_STATE_ANALOG, bias_v),
                   PIN_CANL, PIN_STATE_ANALOG, bias_v)
            ELSE pin_set_value(
                   pin_set_value(pins, PIN_CANH, PIN_STATE_HIGH_IMPEDANCE, 0),
                   PIN_CANL, PIN_STATE_HIGH_IMPEDANCE, 0)} :
  \E bus_state \in {BusStateOfPins(pins1)} :
  \E can4 \in {can_transceiver_update_rxd(can3, bus_state, current_time,
                                          time_before_step)} :
  \E rxd_high \in {can4.rxd_output} :
  \E fault2 \in {fault_detector_update(fault1, txd_low, ~rxd_high, bus_state,
                                       tj_temperature, current_time,
                                       new_mode)} :
  \E nfault_low \in {fault_detector_get_nfault_state(fault2) \/ wakerq} :
  \E inh_pin \in {inh_controller_get_pin_state(inh1)} :
      /\ timing' = timing_engine_advance(timing, delta_ns)
      /\ power_state' = IF entered_normal
                          THEN power_monitor_clear_pwron_flag(power1)
                          ELSE power1
      /\ wake_state' = IF entered_normal THEN wake_handler_clear_flags(wake1)
                       ELSE wake1
      /\ mode_state' = mode1
      /\ can_transceiver' = can4
      /\ bus_bias' = bias1
      /\ fault_state' = fault2
      /\ inh_controller' = inh1
      /\ pins' =
           pin_set_value(
             pin_set_value(
               pin_set_value(pins1, PIN_RXD,
                             IF rxd_high THEN PIN_STATE_HIGH
                             ELSE PIN_STATE_LOW,
                             IF rxd_high THEN vio ELSE 0),
               PIN_NFAULT,
               IF nfault_low THEN PIN_STATE_LOW ELSE PIN_STATE_HIGH,
               IF nfault_low THEN 0 ELSE vio),
             PIN_INH, inh_pin[1], inh_pin[2])
      /\ nsteps' = nsteps + 1
      /\ last' = [old_mode |-> old_mode, wakerq |-> wakerq,
                  lwu_edge |-> old_mode = MODE_SLEEP
                               /\ wake_pin_high
                                    # wake_state.wake_pin_prev_state,
                  drive |-> drive, txd_low |-> txd_low]
      /\ txd_mon' = TxdMonitorStep(txd_mon, new_mode, drive)
      /\ UNCHANGED <<tj_temperature, timing_params, callbacks, cb_heap,
                     snapshot>>

\* tcan1463q1_simulator_step called by the client
tcan1463q1_simulator_step(delta_ns) ==
  /\ tcan1463q1_simulator_step_body(delta_ns)
  /\ UNCHANGED frame

\* the conditions the callers hand to run_until: pure predicates over the
\* instance
condition_holds(condition) ==
  CASE condition = "mode_is_normal" -> mode_state.current_mode = MODE_NORMAL
    [] condition = "mode_is_sleep" -> mode_state.current_mode = MODE_SLEEP
    [] OTHER -> FALSE

RUN_UNTIL_STEP_NS == 1000

\* tcan1463q1_simulator_run_until up to its loop: a null condition returns
\* false at once
tcan1463q1_simulator_run_until(condition, timeout_ns) ==
  /\ frame.pc = "idle"
  /\ frame' = IF condition = NoCondition
                THEN [frame_idle EXCEPT !.ret = FALSE]
                ELSE [pc |-> "loop", condition |-> condition,
                      timeout_ns |-> timeout_ns,
                      start_time |-> timing.current_time_ns,
                      elapsed |-> 0, ret |-> FALSE]
  /\ UNCHANGED <<pins, timing, mode_state, can_transceiver, power_state,
                 fault_state, wake_state, bus_bias, inh_controller,
                 tj_temperature, nsteps, last, txd_mon, timing_params,
                 callbacks, cb_heap, snapshot>>

\* mutant: the timeout returns false without the last check
run_until_iteration_no_last_check ==
  /\ frame.pc = "loop"
  /\ IF frame.elapsed < frame.timeout_ns /\ ~condition_holds(frame.condition)
       THEN /\ tcan1463q1_simulator_step_body(RUN_UNTIL_STEP_NS)
            /\ frame' = [frame EXCEPT
                           !.elapsed = timing'.current_time_ns - frame.start_time]
       ELSE /\ frame' = [frame_idle EXCEPT
                           !.ret = frame.elapsed < frame.timeout_ns]
            /\ UNCHANGED <<pins, timing, mode_state, can_transceiver,
                           power_state, fault_state, wake_state, bus_bias,
                           inh_controller, tj_temperature, nsteps, last,
                           txd_mon, timing_params, callbacks, cb_heap,
                           snapshot>>

\* one turn of the loop of run_until: the test of the timeout, the check of
\* the condition and the step of 1 us, or the return
run_until_iteration ==
  /\ frame.pc = "loop"
  /\ IF frame.elapsed < frame.timeout_ns /\ ~condition_holds(frame.condition)
       THEN /\ tcan1463q1_simulator_step_body(RUN_UNTIL_STEP_NS)
            /\ frame' = [frame EXCEPT
                           !.elapsed = timing'.current_time_ns - frame.start_time]
       ELSE /\ frame' = [frame_idle EXCEPT
                           !.ret = condition_holds(frame.condition)]
            /\ UNCHANGED <<pins, timing, mode_state, can_transceiver,
                           power_state, fault_state, wake_state, bus_bias,
                           inh_controller, tj_temperature, nsteps, last,
                           txd_mon, timing_params, callbacks, cb_heap,
                           snapshot>>

(***************************************************************************)
(* Specification Spec: the mode controller and the wake handler under the  *)
(* control inputs.  The environment sets EN, nSTB and WAKE and takes VSUP  *)
(* away and gives it back (0 V is accepted only on a pin that is not in    *)
(* the analog state); steps are of 1 ns, of the silence time, or 1 ns      *)
(* short of it.                                                            *)
(***************************************************************************)
MaxSteps == 6
MaxTime == 1300000000

ModeRequests ==
  {<<PIN_EN, PIN_STATE_LOW, 0>>, <<PIN_EN, PIN_STATE_HIGH, 3300>>,
   <<PIN_NSTB, PIN_STATE_LOW, 0>>, <<PIN_NSTB, PIN_STATE_HIGH, 3300>>,
   <<PIN_WAKE, PIN_STATE_LOW, 0>>, <<PIN_WAKE, PIN_STATE_HIGH, 3300>>,
   <<PIN_VSUP, PIN_STATE_LOW, 12000>>, <<PIN_VSUP, PIN_STATE_LOW, 0>>,
   <<PIN_VSUP, PIN_STATE_ANALOG, 12000>>}

ModeDeltas == {1, MODE_TSILENCE_NS - 1, MODE_TSILENCE_NS}

SetPin ==
  /\ \E r \in ModeRequests : tcan1463q1_simulator_set_pin(r[1], r[2], r[3])
  /\ UNCHANGED mon

Step ==
  \E d \in ModeDeltas :
    /\ nsteps < MaxSteps
    /\ timing.current_time_ns + d <= MaxTime
    /\ tcan1463q1_simulator_step(d)
    /\ UNCHANGED mon

Next == SetPin \/ Step

Spec == Init /\ [][Next]_vars

(***************************************************************************)
(* SpecFault: the fault detector and the fault indicator.  The environment *)
(* raises EN and nSTB, lowers nSTB again, raises WAKE, drives TXD low and  *)
(* high and heats the junction to the shutdown threshold and cools it      *)
(* down; steps are of the dominant timeout or of the silence time.         *)
(***************************************************************************)
MaxStepsFault == 5
MaxTimeFault == 1300000000

FaultRequests ==
  {<<PIN_EN, PIN_STATE_HIGH, 3300>>,
   <<PIN_NSTB, PIN_STATE_HIGH, 3300>>,
   <<PIN_NSTB, PIN_STATE_LOW, 0>>,
   <<PIN_WAKE, PIN_STATE_HIGH, 3300>>,
   <<PIN_TXD, PIN_STATE_LOW, 0>>,
   <<PIN_TXD, PIN_STATE_HIGH, 3300>>}

FaultDeltas == {TTXDDTO_MIN_NS, MODE_TSILENCE_NS}

FaultTemperatures == {25, TSDR_CELSIUS}

SetPinFault ==
  /\ \E r \in FaultRequests : tcan1463q1_simulator_set_pin(r[1], r[2], r[3])
  /\ UNCHANGED mon

SetTemperatureFault ==
  \E t \in FaultTemperatures :
    /\ t # tj_temperature
    /\ tcan1463q1_simulator_set_temperature(t)
    /\ UNCHANGED mon

MonFaultStep ==
  LET t == timing'.current_time_ns
      txd_low == last'.txd_low
      rxd_low == ~can_transceiver'.rxd_output
  IN  [mon EXCEPT
         !.txd_low_since = IF ~txd_low THEN NoTime
                           ELSE IF @ = NoTime THEN t ELSE @,
         !.eq_since = IF txd_low # rxd_low THEN NoTime
                      ELSE IF @ = NoTime THEN t ELSE @,
         !.last_diff = IF txd_low # rxd_low THEN t ELSE @]

StepFault ==
  \E d \in FaultDeltas :
    /\ nsteps < MaxStepsFault
    /\ timing.current_time_ns + d <= MaxTimeFault
    /\ tcan1463q1_simulator_step(d)
    /\ mon' = MonFaultStep

NextFault == SetPinFault \/ SetTemperatureFault \/ StepFault

SpecFault == Init /\ [][NextFault]_vars

(***************************************************************************)
(* SpecRxd: the receive output in Normal mode.  The environment raises EN  *)
(* and nSTB and drives TXD low and high; steps are of 5, 45 and 100 ns.    *)
(***************************************************************************)
MaxStepsRxd == 7
MaxTimeRxd == 500

RxdRequests ==
  {<<PIN_EN, PIN_STATE_HIGH, 3300>>,
   <<PIN_NSTB, PIN_STATE_HIGH, 3300>>,
   <<PIN_TXD, PIN_STATE_LOW, 0>>,
   <<PIN_TXD, PIN_STATE_HIGH, 3300>>}

RxdDeltas == {5, 45, 100}

SetPinRxd ==
  /\ \E r \in RxdRequests : tcan1463q1_simulator_set_pin(r[1], r[2], r[3])
  /\ UNCHANGED mon

StepRxd ==
  \E d \in RxdDeltas :
    /\ nsteps < MaxStepsRxd
    /\ timing.current_time_ns + d <= MaxTimeRxd
    /\ tcan1463q1_simulator_step(d)
    /\ UNCHANGED mon

NextRxd == SetPinRxd \/ StepRxd

SpecRxd == Init /\ [][NextRxd]_vars

(***************************************************************************)
(* SpecBus: a bus driven by another node.  The environment raises nSTB,    *)
(* raises and lowers EN and writes a dominant level to CANH and CANL; TXD  *)
(* stays high.  Steps are of 100 ns and of the bus-dominant timeout.       *)
(***************************************************************************)
MaxStepsBus == 5
MaxTimeBus == 5000000

BusRequests ==
  {<<PIN_EN, PIN_STATE_HIGH, 3300>>,
   <<PIN_EN, PIN_STATE_LOW, 0>>,
   <<PIN_NSTB, PIN_STATE_HIGH, 3300>>}

BusDeltas == {TPROP_LOOP1_MIN_NS, TBUSDOM_MIN_NS}

ExternalDominant ==
  <<<<PIN_CANH, PIN_STATE_ANALOG, CANH_DOMINANT_VOLTAGE>>,
    <<PIN_CANL, PIN_STATE_ANALOG, CANL_DOMINANT_VOLTAGE>>>>

ActiveModes == {MODE_NORMAL, MODE_SILENT}

SetPinBus ==
  /\ \E r \in BusRequests : tcan1463q1_simulator_set_pin(r[1], r[2], r[3])
  /\ UNCHANGED mon

ApplyDominantBus ==
  /\ ~mon.bus_applied
  /\ tcan1463q1_simulator_set_pins(ExternalDominant)
  /\ mon' = [mon EXCEPT !.bus_applied = TRUE]

MonBusStep ==
  LET heard == /\ mon.bus_applied
               /\ BusStateOfPins(pins) = BUS_STATE_DOMINANT
               /\ mode_state.current_mode \in ActiveModes
               /\ mode_state'.current_mode \in ActiveModes
      normal_idle == /\ heard
                     /\ mode_state.current_mode = MODE_NORMAL
                     /\ mode_state'.current_mode = MODE_NORMAL
                     /\ ~last'.txd_low
  IN  [mon EXCEPT
         !.bus_applied = FALSE,
         !.bus_since = IF ~heard THEN NoTime
                       ELSE IF @ = NoTime THEN timing.current_time_ns ELSE @,
         !.bus_first = IF ~normal_idle THEN NoTime
                       ELSE IF @ = NoTime THEN timing'.current_time_ns ELSE @]

StepBus ==
  \E d \in BusDeltas :
    /\ nsteps < MaxStepsBus
    /\ timing.current_time_ns + d <= MaxTimeBus
    /\ tcan1463q1_simulator_step(d)
    /\ mon' = MonBusStep

NextBus == SetPinBus \/ ApplyDominantBus \/ StepBus

SpecBus == Init /\ [][NextBus]_vars

(***************************************************************************)
(* SpecCbf: the bus-fault-streak counter.  The environment raises EN and   *)
(* nSTB, takes VSUP away and gives it back and drives TXD low and high;    *)
(* steps are of 100 ns, far below every timeout.                           *)
(***************************************************************************)
MaxStepsCbf == 11
MaxTimeCbf == 1200

CbfRequests ==
  {<<PIN_EN, PIN_STATE_HIGH, 3300>>,
   <<PIN_NSTB, PIN_STATE_HIGH, 3300>>,
   <<PIN_VSUP, PIN_STATE_LOW, 12000>>,
   <<PIN_VSUP, PIN_STATE_LOW, 0>>,
   <<PIN_VSUP, PIN_STATE_ANALOG, 12000>>,
   <<PIN_TXD, PIN_STATE_LOW, 0>>,
   <<PIN_TXD, PIN_STATE_HIGH, 3300>>}

CbfDeltas == {TPROP_LOOP1_MIN_NS}

SetPinCbf ==
  /\ \E r \in CbfRequests : tcan1463q1_simulator_set_pin(r[1], r[2], r[3])
  /\ UNCHANGED mon

MonCbfStep ==
  LET active == mode_state'.current_mode \in ActiveModes
      dom == BusStateOfPins(pins') = BUS_STATE_DOMINANT
      seen == IF mon.cbf_prev_dom /\ ~dom THEN mon.cbf_seen + 1
              ELSE mon.cbf_seen
  IN  [mon EXCEPT
         !.cbf_prev_dom = active /\ dom,
         !.cbf_seen = IF ~active THEN 0
                      ELSE IF seen > CbfCountCap THEN CbfCountCap ELSE seen]

StepCbf ==
  \E d \in CbfDeltas :
    /\ nsteps < MaxStepsCbf
    /\ timing.current_time_ns + d <= MaxTimeCbf
    /\ tcan1463q1_simulator_step(d)
    /\ mon' = MonCbfStep

NextCbf == SetPinCbf \/ StepCbf

SpecCbf == Init /\ [][NextCbf]_vars

(***************************************************************************)
(* SpecInh: the inhibit output.  The environment raises EN, raises and     *)
(* lowers nSTB, raises WAKE and raises and lowers INH_MASK; steps are of   *)
(* the INH assertion delay or of the silence time.                         *)
(***************************************************************************)
MaxStepsInh == 7
MaxTimeInh == 601000000

InhRequests ==
  {<<PIN_EN, PIN_STATE_HIGH, 3300>>,
   <<PIN_NSTB, PIN_STATE_HIGH, 3300>>,
   <<PIN_NSTB, PIN_STATE_LOW, 0>>,
   <<PIN_WAKE, PIN_STATE_HIGH, 3300>>,
   <<PIN_INH_MASK, PIN_STATE_HIGH, 3300>>,
   <<PIN_INH_MASK, PIN_STATE_LOW, 0>>}

InhDeltas == {TINH_SLP_STB_NS, MODE_TSILENCE_NS}

InhHighModes == {MODE_NORMAL, MODE_SILENT, MODE_STANDBY}

SetPinInh ==
  /\ \E r \in InhRequests : tcan1463q1_simulator_set_pin(r[1], r[2], r[3])
  /\ UNCHANGED mon

MonInhStep ==
  [mon EXCEPT
     !.inh_wake =
       IF pins[PIN_INH_MASK].state = PIN_STATE_HIGH
          \/ mode_state'.current_mode \notin InhHighModes
         THEN NoTime
       ELSE IF mode_state.current_mode = MODE_SLEEP
               /\ mode_state'.current_mode = MODE_STANDBY
         THEN timing'.current_time_ns
       ELSE @]

StepInh ==
  \E d \in InhDeltas :
    /\ nsteps < MaxStepsInh
    /\ timing.current_time_ns + d <= MaxTimeInh
    /\ tcan1463q1_simulator_step(d)
    /\ mon' = MonInhStep

NextInh == SetPinInh \/ StepInh

SpecInh == Init /\ [][NextInh]_vars

(***************************************************************************)
(* SpecWup: the remote wake-up pattern.  The environment raises and lowers *)
(* nSTB to reach Sleep and writes a dominant level to CANH and CANL (the   *)
(* step itself leaves the bus recessive); steps are of the wake filter     *)
(* time, of the wake timeout less two filter times, and of the silence     *)
(* time.                                                                   *)
(***************************************************************************)
MaxStepsWup == 8
MaxTimeWup == 602010000

WupRequests ==
  {<<PIN_NSTB, PIN_STATE_HIGH, 3300>>,
   <<PIN_NSTB, PIN_STATE_LOW, 0>>}

WupDeltas ==
  {TWK_FILTER_MIN_NS, TWK_TIMEOUT_MAX_NS - 2 * TWK_FILTER_MIN_NS,
   MODE_TSILENCE_NS}

WakeModes == {MODE_STANDBY, MODE_SLEEP}

SetPinWup ==
  /\ \E r \in WupRequests : tcan1463q1_simulator_set_pin(r[1], r[2], r[3])
  /\ UNCHANGED mon

MonWupStep ==
  [mon EXCEPT
     !.bus_applied = FALSE,
     !.wup_rec_seen =
       IF wake_state'.wup_state = WUP_STATE_IDLE THEN FALSE
       ELSE \/ @
            \/ /\ mode_state.current_mode \in WakeModes
               /\ wake_state.wup_state # WUP_STATE_IDLE
               /\ BusStateOfPins(pins) = BUS_STATE_RECESSIVE]

StepWup ==
  \E d \in WupDeltas :
    /\ nsteps < MaxStepsWup
    /\ timing.current_time_ns + d <= MaxTimeWup
    /\ tcan1463q1_simulator_step(d)
    /\ mon' = MonWupStep

NextWup == SetPinWup \/ ApplyDominantBus \/ StepWup

SpecWup == Init /\ [][NextWup]_vars

(***************************************************************************)
(* SpecPin: the set-pin entry points.  The environment calls set_pin on    *)
(* TXD, RXD and VSUP with the low and the analog state and with voltages   *)
(* inside and outside the ranges, raises nSTB, and calls set_pins with two *)
(* entries; steps are of 1 us.                                             *)
(***************************************************************************)
MaxStepsPin == 3
MaxTimePin == 3000

PinStates == {PIN_STATE_LOW, PIN_STATE_ANALOG}

PinVoltages == {0, 3300, 12000}

PinRequests ==
  ({PIN_TXD, PIN_RXD, PIN_VSUP} \X PinStates \X PinVoltages)
    \cup {<<PIN_NSTB, PIN_STATE_HIGH, 3300>>}

BatchEntries ==
  {<<PIN_TXD, PIN_STATE_LOW, 0>>,
   <<PIN_TXD, PIN_STATE_LOW, 12000>>,
   <<PIN_RXD, PIN_STATE_LOW, 0>>,
   <<PIN_VSUP, PIN_STATE_ANALOG, 12000>>}

PinBatches == {<<a, b>> : a \in BatchEntries, b \in BatchEntries}

PinDeltas == {1000}

OutputOnlyPins == {p \in PinType : ~pin_directions[p].is_input}

InStaticRange(p, voltage) ==
  /\ voltage >= pin_voltage_ranges[p].min
  /\ voltage <= pin_voltage_ranges[p].max

SetPinPin ==
  \E r \in PinRequests :
    /\ tcan1463q1_simulator_set_pin(r[1], r[2], r[3])
    /\ mon' = [mon EXCEPT
                 !.call = <<r>>,
                 !.ret = tcan1463q1_simulator_set_pin_result(
                           pins, r[1], r[2], r[3])]

SetPinsPin ==
  \E b \in PinBatches :
    /\ tcan1463q1_simulator_set_pins(b)
    /\ mon' = [mon EXCEPT !.call = b, !.ret = set_pins_result(pins, b)]

StepPin ==
  \E d \in PinDeltas :
    /\ nsteps < MaxStepsPin
    /\ timing.current_time_ns + d <= MaxTimePin
    /\ tcan1463q1_simulator_step(d)
    /\ mon' = [mon EXCEPT !.call = <<>>, !.ret = TRUE]

NextPin == SetPinPin \/ SetPinsPin \/ StepPin

SpecPin == Init /\ [][NextPin]_vars

(***************************************************************************)
(* SpecSnap: snapshot and restore.  The environment raises EN and nSTB,    *)
(* drives TXD low, sets timing parameters inside and outside their ranges, *)
(* takes a snapshot and restores it (or restores the null snapshot);       *)
(* steps are of the dominant timeout.                                      *)
(***************************************************************************)
MaxStepsSnap == 2
MaxTimeSnap == 2400000
MaxSnapshots == 1

SnapRequests ==
  {<<PIN_EN, PIN_STATE_HIGH, 3300>>,
   <<PIN_NSTB, PIN_STATE_HIGH, 3300>>,
   <<PIN_TXD, PIN_STATE_LOW, 0>>}

SnapTimingParams ==
  {[timing_params_default EXCEPT !.tuv_ms = 10000],
   [timing_params_default EXCEPT !.tuv_ms = 5000]}

SnapDeltas == {TTXDDTO_MIN_NS}

SetPinSnap ==
  \E r \in SnapRequests :
    /\ tcan1463q1_simulator_set_pin(r[1], r[2], r[3])
    /\ mon' = [mon EXCEPT
                 !.op = "set_pin", !.call = <<r>>,
                 !.ret = tcan1463q1_simulator_set_pin_result(
                           pins, r[1], r[2], r[3])]

SetTimingParametersSnap ==
  \E params \in SnapTimingParams :
    /\ tcan1463q1_simulator_set_timing_parameters(params)
    /\ mon' = [mon EXCEPT
                 !.op = "set_timing_parameters", !.call = <<>>,
                 !.ret = tcan1463q1_simulator_validate_timing_parameters(
                           params)]

SnapshotSnap ==
  /\ mon.nsnap < MaxSnapshots
  /\ tcan1463q1_simulator_snapshot
  /\ mon' = [mon EXCEPT !.op = "snapshot", !.call = <<>>, !.ret = TRUE,
                        !.nsnap = @ + 1, !.snap_view = Queryable]

RestoreSnap ==
  /\ tcan1463q1_simulator_restore(snapshot)
  /\ mon' = [mon EXCEPT
               !.op = "restore", !.call = <<>>,
               !.ret = tcan1463q1_simulator_restore_result(snapshot)]

StepSnap ==
  \E d \in SnapDeltas :
    /\ nsteps < MaxStepsSnap
    /\ timing.current_time_ns + d <= MaxTimeSnap
    /\ tcan1463q1_simulator_step(d)
    /\ mon' = [mon EXCEPT !.op = "step", !.call = <<>>, !.ret = TRUE,
                          !.fired = <<>>]

NextSnap ==
  \/ SetPinSnap
  \/ SetTimingParametersSnap
  \/ SnapshotSnap
  \/ RestoreSnap
  \/ StepSnap

SpecSnap == Init /\ [][NextSnap]_vars

(***************************************************************************)
(* SpecCb: the event callbacks.  The environment registers and unregisters *)
(* two callbacks for the mode-change event (and for an event type out of   *)
(* range), takes a snapshot and restores it, and raises nSTB; steps are of *)
(* the dominant timeout.                                                   *)
(***************************************************************************)
MaxStepsCb == 2
MaxTimeCb == 2400000

CbRequests == {<<PIN_NSTB, PIN_STATE_HIGH, 3300>>}

CbEventTypes == {EVENT_MODE_CHANGE, EventTypeCount}

CbCallbacks == {"on_event_a", "on_event_b"}

SetPinCb ==
  \E r \in CbRequests :
    /\ tcan1463q1_simulator_set_pin(r[1], r[2], r[3])
    /\ mon' = [mon EXCEPT
                 !.op = "set_pin", !.call = <<r>>,
                 !.ret = tcan1463q1_simulator_set_pin_result(
                           pins, r[1], r[2], r[3])]

RegisterCb ==
  \E e \in CbEventTypes, cb \in CbCallbacks :
    /\ tcan1463q1_simulator_register_callback(e, cb)
    /\ mon' = [mon EXCEPT !.op = "register_callback", !.call = <<>>,
                          !.ret = register_callback_result(e, cb)]

UnregisterCb ==
  \E e \in CbEventTypes, cb \in CbCallbacks, as_if_intact \in BOOLEAN :
    /\ tcan1463q1_simulator_unregister_callback(e, cb, as_if_intact)
    /\ mon' = [mon EXCEPT
                 !.op = "unregister_callback", !.call = <<>>,
                 !.ret = /\ unregister_callback_result(cb_heap, callbacks,
                                                       e, cb)
                         /\ \/ as_if_intact
                            \/ cb_chain_sound(cb_heap, callbacks[e])]

SnapshotCb ==
  /\ mon.nsnap < MaxSnapshots
  /\ tcan1463q1_simulator_snapshot
  /\ mon' = [mon EXCEPT !.op = "snapshot", !.call = <<>>, !.ret = TRUE,
                        !.nsnap = @ + 1, !.snap_view = Queryable]

RestoreCb ==
  /\ tcan1463q1_simulator_restore(snapshot)
  /\ mon' = [mon EXCEPT
               !.op = "restore", !.call = <<>>,
               !.ret = tcan1463q1_simulator_restore_result(snapshot)]

StepCb ==
  \E d \in SnapDeltas :
    /\ nsteps < MaxStepsCb
    /\ timing.current_time_ns + d <= MaxTimeCb
    /\ tcan1463q1_simulator_step(d)
    /\ mon' = [mon EXCEPT !.op = "step", !.call = <<>>, !.ret = TRUE,
                          !.fired = <<>>]

NextCb ==
  \/ SetPinCb
  \/ RegisterCb
  \/ UnregisterCb
  \/ SnapshotCb
  \/ RestoreCb
  \/ StepCb

SpecCb == Init /\ [][NextCb]_vars

(***************************************************************************)
(* SpecIso: two instances in one process.  The environment raises EN and   *)
(* nSTB of this instance and lowers nSTB again, and creates other          *)
(* instances in between; steps are of 1 ns or of the transceiver's silence *)
(* time.                                                                   *)
(***************************************************************************)
MaxStepsIso == 4
MaxTimeIso == 1000000010
MaxOthers == 2

IsoRequests ==
  {<<PIN_EN, PIN_STATE_HIGH, 3300>>,
   <<PIN_NSTB, PIN_STATE_HIGH, 3300>>,
   <<PIN_NSTB, PIN_STATE_LOW, 0>>,
   <<PIN_WAKE, PIN_STATE_HIGH, 3300>>}

IsoDeltas == {1, CAN_TSILENCE_NS}

SetPinIso ==
  \E r \in IsoRequests :
    /\ tcan1463q1_simulator_set_pin(r[1], r[2], r[3])
    /\ mon' = [mon EXCEPT !.op = "set_pin"]

CreateOtherIso ==
  /\ mon.others < MaxOthers
  /\ tcan1463q1_simulator_create_other
  /\ mon' = [mon EXCEPT
               !.op = "create_other", !.others = @ + 1,
               !.other_pending = (mon.others = 0),
               !.solo_lba = IF mon.others = 0 THEN can_transceiver.lba
                            ELSE @]

StepIso ==
  \E d \in IsoDeltas :
    /\ nsteps < MaxStepsIso
    /\ timing.current_time_ns + d <= MaxTimeIso
    /\ tcan1463q1_simulator_step(d)
    /\ mon' = [mon EXCEPT !.op = "step", !.other_pending = FALSE]

NextIso ==
  \/ SetPinIso
  \/ CreateOtherIso
  \/ StepIso

SpecIso == Init /\ [][NextIso]_vars

(***************************************************************************)
(* SpecPwr: the power monitor on its own.  The client samples VCC and VIO  *)
(* below the falling threshold, inside the hysteresis band and above the   *)
(* rising threshold, with VSUP good, at intervals of nothing, half the     *)
(* filter time and the filter time.                                        *)
(***************************************************************************)
MaxTimePwr == 300000000

PwrVcc == {UVCC_FALLING_MAX - 100, UVCC_FALLING_MAX, UVCC_RISING_MIN,
           UVCC_RISING_MIN + 100}

PwrVio == {UVIO_FALLING_MAX - 50, UVIO_FALLING_MAX + 50,
           UVIO_RISING_MIN + 100}

PwrDeltas == {0, TUV_MIN_NS \div 2, TUV_MIN_NS}

BelowSince(since, v, falling_max, t) ==
  IF v < falling_max THEN (IF since = NoTime THEN t ELSE since) ELSE NoTime

PowerMonitorUpdatePwr ==
  \E vcc \in PwrVcc, vio \in PwrVio, d \in PwrDeltas :
    /\ timing.current_time_ns + d <= MaxTimePwr
    /\ power_monitor_update_call(12000, vcc, vio, d)
    /\ mon' = [mon EXCEPT
                 !.op = "power_monitor_update",
                 !.vcc_below_since =
                    BelowSince(@, vcc, UVCC_FALLING_MAX,
                               timing.current_time_ns + d),
                 !.vio_below_since =
                    BelowSince(@, vio, UVIO_FALLING_MAX,
                               timing.current_time_ns + d)]

NextPwr == PowerMonitorUpdatePwr

SpecPwr == Init /\ [][NextPwr]_vars

(***************************************************************************)
(* SpecRun: run_until.  The client raises EN and nSTB and lowers nSTB, and *)
(* calls run_until with a null condition, with a condition that a step can *)
(* make true and with one that stays false, and with timeouts of nothing,  *)
(* of less than a step, of a step and a half and of two steps.  A call in  *)
(* progress runs to its end before the client's next call, and the loop    *)
(* is not held up.                                                         *)
(***************************************************************************)
MaxTimeRun == 4000

RunRequests ==
  {<<PIN_EN, PIN_STATE_HIGH, 3300>>,
   <<PIN_NSTB, PIN_STATE_HIGH, 3300>>,
   <<PIN_NSTB, PIN_STATE_LOW, 0>>}

RunConditions == {NoCondition, "mode_is_normal", "mode_is_sleep"}

RunTimeouts == {0, 1, 1500, 2000}

SetPinRun ==
  \E r \in RunRequests :
    /\ frame.pc = "idle"
    /\ tcan1463q1_simulator_set_pin(r[1], r[2], r[3])
    /\ mon' = [mon EXCEPT !.op = "set_pin"]

RunUntilRun ==
  \E condition \in RunConditions, timeout_ns \in RunTimeouts :
    /\ timing.current_time_ns + timeout_ns <= MaxTimeRun
    /\ tcan1463q1_simulator_run_until(condition, timeout_ns)
    /\ mon' = [mon EXCEPT !.op = "run_until", !.run_steps = 0,
                          !.run_seen = FALSE]

RunUntilIterationRun ==
  /\ run_until_iteration
  /\ mon' = [mon EXCEPT
               !.op = "run_until",
               !.run_steps = IF nsteps' # nsteps THEN @ + 1 ELSE @,
               !.run_seen = @ \/ condition_holds(frame.condition)]

NextRun ==
  \/ SetPinRun
  \/ RunUntilRun
  \/ RunUntilIterationRun

SpecRun == Init /\ [][NextRun]_vars /\ WF_vars(RunUntilIterationRun)

(***************************************************************************)
(* SpecTime: the timing engine on its own, its times at their full width.  *)
(* The client advances the time by nothing, by 1 ns, by 1 s, by 2^63 ns    *)
(* and by 2^64 - 1 ns.                                                     *)
(***************************************************************************)
MaxAdvances == 4

TimeDeltas ==
  {U64_ZERO, <<0, 0, 0, 1>>, <<0, 0, 15258, 51712>>, <<32768, 0, 0, 0>>,
   U64_MAX}

InitTime ==
  /\ pins = pin_manager_init
  /\ timing = timing_engine_init_u64
  /\ mode_state = mode_controller_init
  /\ can_transceiver = can_transceiver_init
  /\ power_state = power_monitor_init
  /\ fault_state = fault_detector_init
  /\ wake_state = wake_handler_init
  /\ bus_bias = bus_bias_controller_init
  /\ inh_controller = inh_controller_init
  /\ tj_temperature = 25
  /\ nsteps = 0
  /\ last = [old_mode |-> MODE_OFF, wakerq |-> FALSE, lwu_edge |-> FALSE,
             drive |-> FALSE, txd_low |-> FALSE]
  /\ txd_mon = TxdMonitorIdle
  /\ mon = MonInit
  /\ timing_params = timing_params_default
  /\ callbacks = callbacks_init
  /\ cb_heap = cb_heap_init
  /\ snapshot = snapshot_none
  /\ frame = frame_idle

AdvanceTime ==
  \E delta_ns \in TimeDeltas :
    /\ mon.advances < MaxAdvances
    /\ timing_engine_advance_call(delta_ns)
    /\ mon' = [mon EXCEPT !.op = "advance", !.advances = @ + 1,
                          !.delta = delta_ns]

NextTime == AdvanceTime

SpecTime == InitTime /\ [][NextTime]_vars

(***************************************************************************)
(* SpecRep: a snapshot, inputs applied from it, a restore, and the same    *)
(* inputs again.  The environment raises and lowers nSTB, writes a         *)
(* dominant level to the bus lines and steps by 1 ns.  The inputs that     *)
(* follow the snapshot are recorded with what the instance shows after     *)
(* each; further inputs are not recorded; after the restore the recorded   *)
(* inputs are applied again, in their order.                               *)
(***************************************************************************)
MaxStepsRep == 5
MaxRecorded == 4
MaxOther == 2

RepPinInputs ==
  {<<<<PIN_NSTB, PIN_STATE_HIGH, 3300>>>>,
   <<<<PIN_NSTB, PIN_STATE_LOW, 0>>>>,
   ExternalDominant}

RepDeltas == {1}

\* the history after an input that is recorded (rec) or not
RepInput(input, rec) ==
  IF mon.rep_phase = "record" /\ rec
    THEN /\ Len(mon.rep_in) < MaxRecorded
         /\ mon' = [mon EXCEPT !.op = input[1],
                               !.rep_in = Append(@, input),
                               !.rep_out = Append(@, Outputs')]
    ELSE /\ mon.rep_phase \in {"before", "record", "free"}
         /\ mon.rep_other < MaxOther
         /\ mon' = [mon EXCEPT
                      !.op = input[1], !.rep_other = @ + 1,
                      !.rep_phase = IF @ = "record" THEN "free" ELSE @]

SetPinsRep ==
  \E values \in RepPinInputs, rec \in BOOLEAN :
    /\ tcan1463q1_simulator_set_pins(values)
    /\ RepInput(<<"set_pins", values>>, rec)

StepRep ==
  \E d \in RepDeltas, rec \in BOOLEAN :
    /\ nsteps < MaxStepsRep
    /\ tcan1463q1_simulator_step(d)
    /\ RepInput(<<"step", d>>, rec)

SnapshotRep ==
  /\ mon.rep_phase = "before"
  /\ tcan1463q1_simulator_snapshot
  /\ mon' = [mon EXCEPT !.op = "snapshot", !.rep_phase = "record"]

RestoreRep ==
  /\ mon.rep_phase \in {"record", "free"}
  /\ mon.rep_in # <<>>
  /\ tcan1463q1_simulator_restore(snapshot)
  /\ mon' = [mon EXCEPT !.op = "restore", !.rep_phase = "replay",
                        !.rep_pos = 1]

ReplayRep ==
  /\ mon.rep_phase = "replay"
  /\ mon.rep_pos <= Len(mon.rep_in)
  /\ \E input \in {mon.rep_in[mon.rep_pos]} :
       /\ IF input[1] = "step"
            THEN nsteps < MaxStepsRep /\ tcan1463q1_simulator_step(input[2])
            ELSE tcan1463q1_simulator_set_pins(input[2])
       /\ mon' = [mon EXCEPT !.op = input[1], !.rep_pos = @ + 1]

NextRep ==
  \/ SetPinsRep
  \/ StepRep
  \/ SnapshotRep
  \/ RestoreRep
  \/ ReplayRep

SpecRep == Init /\ [][NextRep]_vars

(***************************************************************************)
(* SpecCfg: the supply values of the configuration interface.  The client  *)
(* raises EN and nSTB, gives supply values with VSUP good, under the       *)
(* undervoltage threshold and out of range and VCC good and low, through   *)
(* set_supply_voltages and through configure, and steps by 1 ns or by the  *)
(* undervoltage filter time.                                               *)
(***************************************************************************)
MaxStepsCfg == 3
MaxTimeCfg == 200000000

CfgRequests ==
  {<<PIN_EN, PIN_STATE_HIGH, 3300>>, <<PIN_NSTB, PIN_STATE_HIGH, 3300>>}

CfgVsup == {3000, UVSUP_FALLING_MIN, 12000, 41000}

CfgVcc == {3800, 5000}

CfgTemperatures == {25, 180}

CfgDeltas == {1, TUV_MIN_NS}

SetPinCfg ==
  \E r \in CfgRequests :
    /\ tcan1463q1_simulator_set_pin(r[1], r[2], r[3])
    /\ mon' = [mon EXCEPT !.op = "set_pin", !.cfg = <<>>,
                 !.ret = tcan1463q1_simulator_set_pin_result(
                           pins, r[1], r[2], r[3])]

SetSupplyVoltagesCfg ==
  \E vsup \in CfgVsup, vcc \in CfgVcc :
    /\ tcan1463q1_simulator_set_supply_voltages(vsup, vcc, 3300)
    /\ mon' = [mon EXCEPT !.op = "set_supply_voltages",
                          !.cfg = <<vsup, vcc, 3300>>,
                          !.ret = set_supply_voltages_result(vsup, vcc, 3300)]

ConfigureCfg ==
  \E vsup \in CfgVsup, vcc \in CfgVcc, t \in CfgTemperatures :
    /\ tcan1463q1_simulator_configure(vsup, vcc, 3300, t)
    /\ mon' = [mon EXCEPT !.op = "configure", !.cfg = <<vsup, vcc, 3300>>,
                          !.ret = TRUE]

StepCfg ==
  \E d \in CfgDeltas :
    /\ nsteps < MaxStepsCfg
    /\ timing.current_time_ns + d <= MaxTimeCfg
    /\ tcan1463q1_simulator_step(d)
    /\ mon' = [mon EXCEPT !.op = "step", !.cfg = <<>>, !.ret = TRUE]

NextCfg ==
  \/ SetPinCfg
  \/ SetSupplyVoltagesCfg
  \/ ConfigureCfg
  \/ StepCfg

SpecCfg == Init /\ [][NextCfg]_vars

(***************************************************************************)
(* SpecRes: a run from a new instance, further inputs, a reset, and the    *)
(* same run again.  The environment alternates a write of pins (EN and     *)
(* nSTB high, TXD low, or TXD high) with a step of 1 ns.  The inputs       *)
(* from the creation on are recorded with what the                         *)
(* instance shows after each; further inputs are not recorded; after the   *)
(* reset the recorded inputs are applied again, in their order.            *)
(***************************************************************************)
MaxStepsRes == 16
MaxRecordedRes == 14
MaxOtherRes == 2

ResPinInputs ==
  {<<<<PIN_EN, PIN_STATE_HIGH, 3300>>, <<PIN_NSTB, PIN_STATE_HIGH, 3300>>>>,
   <<<<PIN_TXD, PIN_STATE_LOW, 0>>>>,
   <<<<PIN_TXD, PIN_STATE_HIGH, 3300>>>>}

\* tcan1463q1_simulator_reset: the struct is zeroed and every component is
\* initialised again; the callback lists and the INH controller object are
\* kept, the latter initialised again.  The static prev_bus_state of
\* fault_detector_check_cbf is not part of the struct and keeps its value;
\* the static last_bus_activity_time is written by can_transceiver_init.
tcan1463q1_simulator_reset ==
  /\ pins' = pin_manager_init
  /\ timing' = timing_engine_init
  /\ mode_state' = mode_controller_init
  /\ can_transceiver' = can_transceiver_init
  /\ power_state' = power_monitor_init
  /\ fault_state' = [fault_detector_init EXCEPT
                       !.prev_bus_state = fault_state.prev_bus_state]
  /\ wake_state' = wake_handler_init
  /\ bus_bias' = bus_bias_controller_init
  /\ inh_controller' = inh_controller_init
  /\ tj_temperature' = 25
  /\ timing_params' = timing_params_default
  /\ last' = [old_mode |-> MODE_OFF, wakerq |-> FALSE, lwu_edge |-> FALSE,
              drive |-> FALSE, txd_low |-> FALSE]
  /\ txd_mon' = TxdMonitorIdle
  /\ UNCHANGED <<nsteps, callbacks, cb_heap, snapshot, frame>>

\* the history after an input that is recorded (rec) or not
ResInput(input, rec) ==
  IF mon.rep_phase \in {"before", "record"} /\ rec
    THEN /\ Len(mon.rep_in) < MaxRecordedRes
         /\ mon' = [mon EXCEPT !.op = input[1],
                               !.rep_phase = "record",
                               !.rep_in = Append(@, input),
                               !.rep_out = Append(@, Outputs')]
    ELSE /\ mon.rep_phase \in {"record", "free"}
         /\ mon.rep_other < MaxOtherRes
         /\ mon' = [mon EXCEPT !.op = input[1], !.rep_other = @ + 1,
                               !.rep_phase = "free"]

SetPinsRes ==
  \E values \in ResPinInputs, rec \in BOOLEAN :
    /\ mon.op # "set_pins"
    /\ tcan1463q1_simulator_set_pins(values)
    /\ ResInput(<<"set_pins", values>>, rec)

StepRes ==
  \E d \in RepDeltas, rec \in BOOLEAN :
    /\ mon.op = "set_pins"
    /\ nsteps < MaxStepsRes
    /\ tcan1463q1_simulator_step(d)
    /\ ResInput(<<"step", d>>, rec)

ResetRes ==
  /\ mon.rep_phase \in {"record", "free"}
  /\ mon.op = "step"
  /\ tcan1463q1_simulator_reset
  /\ mon' = [mon EXCEPT !.op = "reset", !.rep_phase = "replay",
                        !.rep_pos = 1]

ReplayRes ==
  /\ mon.rep_phase = "replay"
  /\ mon.rep_pos <= Len(mon.rep_in)
  /\ \E input \in {mon.rep_in[mon.rep_pos]} :
       /\ IF input[1] = "step"
            THEN nsteps < MaxStepsRes /\ tcan1463q1_simulator_step(input[2])
            ELSE tcan1463q1_simulator_set_pins(input[2])
       /\ mon' = [mon EXCEPT !.op = input[1], !.rep_pos = @ + 1]

NextRes ==
  \/ SetPinsRes
  \/ StepRes
  \/ ResetRes
  \/ ReplayRes

SpecRes == Init /\ [][NextRes]_vars

(***************************************************************************)
(* Claims                                                                  *)
(***************************************************************************)
current_mode == mode_state.current_mode

IsStep == nsteps' # nsteps

\* the transition table as the specification lists it
C1_Table ==
  {<<MODE_OFF, MODE_NORMAL>>, <<MODE_OFF, MODE_SILENT>>,
   <<MODE_NORMAL, MODE_SILENT>>, <<MODE_SILENT, MODE_NORMAL>>,
   <<MODE_NORMAL, MODE_STANDBY>>, <<MODE_SILENT, MODE_STANDBY>>,
   <<MODE_NORMAL, MODE_GO_TO_SLEEP>>, <<MODE_SILENT, MODE_GO_TO_SLEEP>>,
   <<MODE_GO_TO_SLEEP, MODE_SLEEP>>,
   <<MODE_STANDBY, MODE_NORMAL>>, <<MODE_STANDBY, MODE_SILENT>>,
   <<MODE_SLEEP, MODE_STANDBY>>} \cup
  {<<m, MODE_OFF>> : m \in OperatingMode \ {MODE_OFF}}

\* C1: across any step, a change of the operating mode is one of the pairs
\* of the static transition table; no other pair is ever taken in one step.
C1_ModeTransitionValidity ==
  [][mode_state'.current_mode # current_mode
       => <<current_mode, mode_state'.current_mode>> \in C1_Table]_vars

\* a step taken in Off with the supply valid and nSTB low (target
\* Go-to-Sleep, not in the table) after the device had left Off before
C1_Witness ==
  /\ current_mode = MODE_OFF
  /\ last.old_mode = MODE_OFF
  /\ mode_state.previous_mode = MODE_SLEEP
  /\ ~power_state.uvsup_flag
  /\ power_state.pwron_flag

\* C2: whenever the VSUP undervoltage flag is set after a step, the mode
\* after that step is Off.
C2_UndervoltageForcesOff ==
  power_state.uvsup_flag => current_mode = MODE_OFF

\* the supply was lost in Standby with a wake request pending
C2_Witness ==
  /\ power_state.uvsup_flag
  /\ last.old_mode = MODE_STANDBY
  /\ last.wakerq
  /\ current_mode = MODE_OFF

\* C3: a step changes the mode to Sleep if and only if the mode before the
\* step was Go-to-Sleep, the supply is valid and the step time minus the
\* mode-entry time is at least the silence threshold.
C3_SleepIffSilenceElapsed ==
  [][IsStep =>
       ((mode_state'.current_mode = MODE_SLEEP /\ current_mode # MODE_SLEEP)
          <=> (/\ current_mode = MODE_GO_TO_SLEEP
               /\ ~power_state'.uvsup_flag
               /\ timing'.current_time_ns - mode_state.mode_entry_time
                    >= MODE_TSILENCE_NS))]_vars

\* Sleep entered from Go-to-Sleep by a step that sampled nSTB and EN high
C3_Witness ==
  /\ current_mode = MODE_SLEEP
  /\ last.old_mode = MODE_GO_TO_SLEEP
  /\ mode_state.mode_entry_time = timing.current_time_ns
  /\ pins[PIN_NSTB].state = PIN_STATE_HIGH
  /\ pins[PIN_EN].state = PIN_STATE_HIGH

\* C4: when a step in Sleep with valid supply samples a changed WAKE level,
\* the wake-request and wake-source flags are set and the mode is Standby
\* at the end of that step or of the following one.
C4_LocalWakeReachesStandby ==
  [][IsStep =>
       /\ (last'.lwu_edge /\ ~power_state'.uvsup_flag
             => wake_state'.wakerq_flag /\ wake_state'.wakesr_flag)
       /\ ((/\ last.lwu_edge
            /\ ~power_state.uvsup_flag
            /\ current_mode # MODE_STANDBY
            /\ ~power_state'.uvsup_flag)
             => mode_state'.current_mode = MODE_STANDBY)]_vars

AnyFaultFlag ==
  \/ fault_state.txdclp_flag
  \/ fault_state.txddto_flag
  \/ fault_state.txdrxd_flag
  \/ fault_state.candom_flag
  \/ fault_state.tsd_flag
  \/ fault_state.cbf_flag

NFaultLow == pins[PIN_NFAULT].state = PIN_STATE_LOW

\* C6 as stated: after every step, NFAULT reads low if and only if at least
\* one of the six fault flags, as read after that step, is set.
C6_NFaultIffAnyFault ==
  nsteps > 0 => (NFaultLow <=> AnyFaultFlag)

\* C6 amended: after every step in which the wake handler left no wake
\* request pending, NFAULT reads low if and only if at least one of the six
\* fault flags, as read after that step, is set.
C6_NFaultIffAnyFaultNoWake ==
  nsteps > 0 /\ ~last.wakerq => (NFaultLow <=> AnyFaultFlag)

\* the thermal flag alone holds NFAULT low, no wake request pending
C6_Witness ==
  /\ nsteps > 0
  /\ ~last.wakerq
  /\ fault_state.tsd_flag
  /\ ~fault_state.txdclp_flag /\ ~fault_state.txddto_flag
  /\ ~fault_state.txdrxd_flag /\ ~fault_state.candom_flag
  /\ ~fault_state.cbf_flag
  /\ NFaultLow

\* C7: after every step, NFAULT reads low if and only if, with all flags as
\* they read after that same step, a fault flag or the wake-request flag is
\* set.
C7_NFaultIffFaultOrWakeRequest ==
  nsteps > 0 => (NFaultLow <=> (AnyFaultFlag \/ wake_state.wakerq_flag))

DominantPair(ps) ==
  /\ ps[PIN_CANH].state = PIN_STATE_ANALOG
  /\ ps[PIN_CANH].voltage = CANH_DOMINANT_VOLTAGE
  /\ ps[PIN_CANL].state = PIN_STATE_ANALOG
  /\ ps[PIN_CANL].voltage = CANL_DOMINANT_VOLTAGE

DriverDisablingFlag(st) ==
  st.txdclp_flag \/ st.txddto_flag \/ st.txdrxd_flag \/ st.tsd_flag

\* C8 as stated: after every step, if any of the clamp, dominant-timeout,
\* TXD/RXD-short or thermal flags is set as read after the step, the
\* CANH/CANL pins written by that step are not the dominant pair.
C8_NoDominantWhenFlagSetAfterStep ==
  nsteps > 0 /\ DriverDisablingFlag(fault_state) => ~DominantPair(pins)

\* C8 amended: if any of the clamp, dominant-timeout, TXD/RXD-short or
\* thermal flags was already set before a step, or the clamp flag is set by
\* the step on entry into Normal, the CANH/CANL pins written by that step
\* are not the dominant pair.
C8_NoDominantWhenFlagSetAtDrive ==
  [][IsStep /\ (DriverDisablingFlag(fault_state)
                  \/ (fault_state'.txdclp_flag /\ ~fault_state.txdclp_flag))
       => ~DominantPair(pins')]_vars

\* Normal mode, driver enabled, TXD low, dominant timeout flagged: the step
\* did not drive the bus
C8_Witness ==
  /\ current_mode = MODE_NORMAL
  /\ last.old_mode = MODE_NORMAL
  /\ last.txd_low
  /\ can_transceiver.driver_enabled
  /\ ~last.drive
  /\ fault_state.txddto_flag
  /\ ~fault_state.txdclp_flag /\ ~fault_state.tsd_flag
  /\ ~DominantPair(pins)

RxdPinLow == pins[PIN_RXD].state = PIN_STATE_LOW

\* C9: in Normal mode with no driver-disabling fault and a settled RXD, a
\* TXD change at time t that is not followed by another one is not shown on
\* RXD at any step ending before t + 100 ns (to dominant) or t + 110 ns (to
\* recessive) and is shown at every step ending at or after t + 190 ns.
C9_PropagationDelayBounds ==
  txd_mon.armed =>
    /\ (timing.current_time_ns
          < txd_mon.change_time
              + (IF txd_mon.to_low THEN TPROP_LOOP1_MIN_NS
                 ELSE TPROP_LOOP2_MIN_NS)
          => RxdPinLow = ~txd_mon.to_low)
    /\ (timing.current_time_ns
          >= txd_mon.change_time
               + (IF txd_mon.to_low THEN TPROP_LOOP1_MAX_NS
                  ELSE TPROP_LOOP2_MAX_NS)
          => RxdPinLow = txd_mon.to_low)

\* a change to recessive has reached RXD between the two bounds
C9_Witness ==
  /\ txd_mon.armed
  /\ ~txd_mon.to_low
  /\ ~RxdPinLow
  /\ timing.current_time_ns >= txd_mon.change_time + TPROP_LOOP2_MIN_NS
  /\ timing.current_time_ns < txd_mon.change_time + TPROP_LOOP2_MAX_NS

\* C10: whenever the RXD update of a step computes a target level that
\* differs from the value of a pending update that is not yet due, the
\* pending update is replaced, so that no update for the superseded value
\* remains pending after the step.
C10_StalePendingReplaced ==
  [][(/\ IsStep
      /\ can_transceiver.rxd_pending
      /\ timing'.current_time_ns < can_transceiver.rxd_update_time
      /\ can_transceiver'.receiver_enabled
      /\ BusStateOfPins(pins') # BUS_STATE_INDETERMINATE
      /\ (BusStateOfPins(pins') # BUS_STATE_DOMINANT)
           # can_transceiver.rxd_pending_value)
       => ~(/\ can_transceiver'.rxd_pending
            /\ can_transceiver'.rxd_pending_value
                 = can_transceiver.rxd_pending_value)]_vars

\* C11: while the receiver is enabled (Normal or Silent) and the environment
\* applies a dominant differential to the bus pins before each step, RXD
\* reads low no later than the maximum propagation delay after the level
\* was first applied.
C11_ExternalDominantReachesRxd ==
  (/\ mon.bus_since # NoTime
   /\ can_transceiver.receiver_enabled
   /\ timing.current_time_ns >= mon.bus_since + TPROP_LOOP1_MAX_NS)
    => RxdPinLow

\* C12: in Normal mode with TXD high, when the environment has held the bus
\* dominant before every step over at least the bus-dominant timeout after
\* the first sample, the bus-dominant flag is set and the driver is still
\* enabled with no driver-disabling flag set.
C12_ExternalDominantSetsCandom ==
  (/\ mon.bus_first # NoTime
   /\ timing.current_time_ns - mon.bus_first >= TBUSDOM_MIN_NS)
    => /\ fault_state.candom_flag
       /\ can_transceiver.driver_enabled
       /\ ~DriverDisablingFlag(fault_state)

\* C13: if TXD was sampled low at every step over a span of at least 1.2 ms,
\* from the first low sample to the latest one, the dominant-timeout flag is
\* set after the latest step, in every mode and whatever RXD and the bus
\* are.
C13_TxdLowSpanSetsTimeout ==
  (/\ mon.txd_low_since # NoTime
   /\ timing.current_time_ns - mon.txd_low_since >= TTXDDTO_MIN_NS)
    => fault_state.txddto_flag

\* C14: if the sampled TXD and RXD levels were equal at every step over a
\* span of at least 1.2 ms, the TXD/RXD-short flag is set after the latest
\* step, for both levels alike; and the flag is not set by a step when the
\* levels differed at some step within the preceding 1.2 ms.
C14_ShortFlagFollowsEqualSpan ==
  [][IsStep =>
       /\ ((/\ mon'.eq_since # NoTime
            /\ timing'.current_time_ns - mon'.eq_since >= TTXDDTO_MIN_NS)
             => fault_state'.txdrxd_flag)
       /\ ((~fault_state.txdrxd_flag /\ fault_state'.txdrxd_flag)
             => \/ mon'.last_diff = NoTime
                \/ timing'.current_time_ns - mon'.last_diff
                     >= TTXDDTO_MIN_NS)]_vars

\* C15: the dominant-timeout flag changes from clear to set at a step only
\* if TXD was sampled low at that step and at every step since a low sample
\* taken at least 1.2 ms earlier.
C15_TimeoutOnlyAfterLowSpan ==
  [][(IsStep /\ ~fault_state.txddto_flag /\ fault_state'.txddto_flag)
       => /\ last'.txd_low
          /\ mon'.txd_low_since # NoTime
          /\ timing'.current_time_ns - mon'.txd_low_since
               >= TTXDDTO_MIN_NS]_vars

\* C16: the clamp flag changes from clear to set in a step if and only if
\* that step moves the mode from a non-Normal mode into Normal and samples
\* TXD low.
C16_ClampOnlyOnNormalEntry ==
  [][IsStep =>
       ((~fault_state.txdclp_flag /\ fault_state'.txdclp_flag)
          <=> (/\ ~fault_state.txdclp_flag
               /\ current_mode # MODE_NORMAL
               /\ mode_state'.current_mode = MODE_NORMAL
               /\ last'.txd_low))]_vars

\* the clamp flag set by an entry into Normal from Standby
C16_Witness ==
  /\ fault_state.txdclp_flag
  /\ current_mode = MODE_NORMAL
  /\ last.old_mode = MODE_STANDBY
  /\ last.txd_low
  /\ mode_state.mode_entry_time = timing.current_time_ns


\* C17: the bus-fault-streak flag changes from clear to set only in a step
\* by which the fault detector has been handed, within the current unbroken
\* run of steps ending in Normal or Silent, at least four recessive bus
\* states each right after a dominant one of the same run; a bus state
\* handed before the run began counts for nothing
C17_StreakFlagNeedsFourTransitions ==
  [][(~fault_state.cbf_flag /\ fault_state'.cbf_flag)
       => mon'.cbf_seen >= 4]_vars

\* C18: the enablement of the transceiver matches its state: off means
\* neither driver nor receiver; either autonomous state means receiver
\* without driver; active means receiver, and driver exactly when the mode
\* is Normal
C18_EnablementMatchesState ==
  /\ can_transceiver.state = CAN_STATE_OFF
       => (~can_transceiver.driver_enabled
           /\ ~can_transceiver.receiver_enabled)
  /\ can_transceiver.state \in {CAN_STATE_AUTONOMOUS_INACTIVE,
                                CAN_STATE_AUTONOMOUS_ACTIVE}
       => (~can_transceiver.driver_enabled
           /\ can_transceiver.receiver_enabled)
  /\ can_transceiver.state = CAN_STATE_ACTIVE
       => (/\ can_transceiver.receiver_enabled
           /\ can_transceiver.driver_enabled
                <=> mode_state.current_mode = MODE_NORMAL)

\* a step has left the transceiver active in Silent mode, listening only
C18_Witness ==
  /\ nsteps > 0
  /\ can_transceiver.state = CAN_STATE_ACTIVE
  /\ mode_state.current_mode = MODE_SILENT
  /\ can_transceiver.receiver_enabled
  /\ ~can_transceiver.driver_enabled

\* C19: once a step has taken the mode from Sleep to Standby on a wake
\* event, and while INH_MASK stays low and the mode stays Standby, Normal
\* or Silent, the INH pin reads high after every step that ends 100 us or
\* more after that step
C19_InhHighAfterWakeDelay ==
  (/\ mon.inh_wake # NoTime
   /\ timing.current_time_ns - mon.inh_wake >= TINH_SLP_STB_NS)
    => pins[PIN_INH].state = PIN_STATE_HIGH

\* C20: a step leaves the INH pin high only if it sampled INH_MASK not high
\* and ended in Normal, Silent or Standby, and high-impedance otherwise; a
\* step that samples INH_MASK high leaves no assertion pending
C20_InhHighOnlyUnmaskedInHighModes ==
  [][IsStep =>
       /\ pins'[PIN_INH].state \in {PIN_STATE_HIGH, PIN_STATE_HIGH_IMPEDANCE}
       /\ pins'[PIN_INH].state = PIN_STATE_HIGH
            => (/\ pins[PIN_INH_MASK].state # PIN_STATE_HIGH
                /\ mode_state'.current_mode \in InhHighModes)
       /\ pins[PIN_INH_MASK].state = PIN_STATE_HIGH
            => (/\ ~inh_controller'.pending_inh_assertion
                /\ pins'[PIN_INH].state = PIN_STATE_HIGH_IMPEDANCE)]_vars

\* a step with INH_MASK low has driven the INH pin high in Normal mode
C20_Witness ==
  /\ nsteps > 0
  /\ pins[PIN_INH].state = PIN_STATE_HIGH
  /\ pins[PIN_INH_MASK].state = PIN_STATE_LOW
  /\ mode_state.current_mode = MODE_NORMAL

\* C21: in Standby or Sleep a step completes the remote wake-up pattern
\* only if the wake handler has been handed a recessive bus state between
\* the dominant ones; and a step that is handed a dominant bus state in the
\* second dominant phase, with the filter time satisfied and no more than
\* the wake timeout elapsed since the first dominant sample, sets the wake
\* request and the wake source, marked remote
C21_RemoteWakeIffPattern ==
  [][(IsStep /\ current_mode \in WakeModes) =>
       /\ (/\ wake_state.wup_state # WUP_STATE_COMPLETE
            /\ wake_state'.wup_state = WUP_STATE_COMPLETE)
             => mon'.wup_rec_seen
       /\ (/\ wake_state.wup_state = WUP_STATE_SECOND_DOMINANT
            /\ BusStateOfPins(pins) = BUS_STATE_DOMINANT
            /\ timing'.current_time_ns - wake_state.wup_phase_start
                 >= TWK_FILTER_MIN_NS
            /\ timing'.current_time_ns - wake_state.wup_timeout_start
                 <= TWK_TIMEOUT_MAX_NS)
             => (/\ wake_state'.wakerq_flag
                 /\ wake_state'.wakesr_flag
                 /\ ~wake_state'.wake_source_local)]_vars

\* C22: with a quiet bus, a step sets the wake request, the wake source or
\* the local-source mark only if it began in Sleep and sampled a WAKE level
\* other than the one the previous step sampled; and every step, in every
\* mode, records the WAKE level it sampled as the previous level, so a
\* change sampled outside Sleep is no edge later
C22_LocalWakeOnlyInSleep ==
  [][IsStep =>
       /\ (\/ (~wake_state.wakerq_flag /\ wake_state'.wakerq_flag)
            \/ (~wake_state.wakesr_flag /\ wake_state'.wakesr_flag)
            \/ (~wake_state.wake_source_local
                 /\ wake_state'.wake_source_local))
             => (/\ current_mode = MODE_SLEEP
                 /\ (pins[PIN_WAKE].state = PIN_STATE_HIGH)
                      # wake_state.wake_pin_prev_state)
       /\ wake_state'.wake_pin_prev_state
            = (pins[PIN_WAKE].state = PIN_STATE_HIGH)]_vars

\* a step that began in Sleep has sampled a changed WAKE level and set the
\* flags, the source marked local
C22_Witness ==
  /\ last.lwu_edge
  /\ last.old_mode = MODE_SLEEP
  /\ wake_state.wakerq_flag
  /\ wake_state.wakesr_flag
  /\ wake_state.wake_source_local

\* C23: the wake-source flag, once set, stays set through every set-pin
\* call and every step, the entry into Normal included; and in every
\* reachable state a set wake request comes with a set wake source
C23_WakeSourcePersists ==
  /\ [](wake_state.wakerq_flag => wake_state.wakesr_flag)
  /\ [][wake_state.wakesr_flag => wake_state'.wakesr_flag]_vars

\* Normal has been entered from Standby: the wake request is cleared, the
\* wake source is still set
C23_Witness ==
  /\ current_mode = MODE_NORMAL
  /\ last.old_mode = MODE_STANDBY
  /\ ~wake_state.wakerq_flag
  /\ wake_state.wakesr_flag

\* the transition is a call of set_pin or set_pins
IsSetCall == nsteps' = nsteps /\ mon'.call # <<>>

\* C24: a call of set_pin or set_pins with an entry for a pin without input
\* capability (RXD, NFAULT, INH) returns false and leaves that pin as it was
C24_OutputOnlyPinsRejected ==
  [][IsSetCall =>
       \A i \in 1..Len(mon'.call) :
         mon'.call[i][1] \in OutputOnlyPins
           => (~mon'.ret /\ pins'[mon'.call[i][1]] = pins[mon'.call[i][1]])]_vars

\* C25: a call of set_pin for an input-capable pin succeeds exactly when
\* the voltage lies within the pin's static range, or the requested state
\* is not analog and the voltage is 0, whatever state the pin holds
C25_SetSucceedsIffInRange ==
  [][(/\ IsSetCall
      /\ Len(mon'.call) = 1
      /\ mon'.call[1][1] \notin OutputOnlyPins)
       => (mon'.ret
             <=> \/ InStaticRange(mon'.call[1][1], mon'.call[1][3])
                 \/ (/\ mon'.call[1][2] # PIN_STATE_ANALOG
                      /\ mon'.call[1][3] = 0))]_vars

\* C26: every pin in the analog state holds a voltage within its static
\* range
C26_AnalogPinsInRange ==
  \A p \in PinType :
    pins[p].state = PIN_STATE_ANALOG => InStaticRange(p, pins[p].voltage)

\* C27: a call of set_pin or set_pins that returns false leaves every pin
\* and all the rest of the simulator as it was
C27_FailedCallChangesNothing ==
  [][(IsSetCall /\ ~mon'.ret) =>
       /\ pins' = pins
       /\ UNCHANGED <<timing, mode_state, can_transceiver, power_state,
                      fault_state, wake_state, bus_bias, inh_controller,
                      tj_temperature>>]_vars

\* the transition is a restore that returned true
IsRestore == mon'.op = "restore" /\ mon'.ret

\* the callbacks registered for each event type, in list order
RegisteredCallbacks ==
  [e \in EventTypes |-> fire_event(cb_heap, callbacks, e)]

\* C28: after a successful restore every query (mode, the twelve flags,
\* state and voltage of every pin, the timing parameters) returns what it
\* returned when the snapshot was taken
C28_RestoreReturnsSnapshotView ==
  [][IsRestore => Queryable' = mon.snap_view]_vars

\* a restore has brought back the mode, a pin and the timing parameters of
\* the snapshot after a step and calls had changed them
C28_Witness ==
  /\ mon.op = "restore"
  /\ mon.ret
  /\ nsteps > 0
  /\ Queryable = mon.snap_view
  /\ mode_state.current_mode = MODE_OFF
  /\ pins[PIN_TXD].state = PIN_STATE_HIGH
  /\ timing_params = timing_params_default
  /\ timing.current_time_ns = 0

\* C29: a successful restore leaves the list of registered callbacks of
\* every event type as it was just before the restore
C29_RestoreKeepsCallbacks ==
  [][IsRestore => RegisteredCallbacks' = RegisteredCallbacks]_vars

\* C30: a step that changes the operating mode invokes, before it returns,
\* every callback registered for the mode-change event
C30_ModeChangeCallbackFires ==
  [][(IsStep /\ mode_state'.current_mode # mode_state.current_mode) =>
       \A i \in 1..Len(RegisteredCallbacks[EVENT_MODE_CHANGE]) :
         \E j \in 1..Len(mon'.fired) :
           mon'.fired[j] = RegisteredCallbacks[EVENT_MODE_CHANGE][i]]_vars

\* C31: what one instance shows is independent of the operations on another
\* instance: the transceiver state its step leaves after another instance
\* was created is the one the step would have left had no other instance
\* been created
C31_OtherInstanceInvisible ==
  [][(IsStep /\ mon.other_pending) =>
       can_transceiver'.state =
         step_transceiver_state(
           mon.solo_lba,
           timing'.current_time_ns - timing.current_time_ns)]_vars

\* the rule of one filtered rail: the flag after an update at time t that
\* sampled v
UvRule(before, after, v, rising_min, since, t) ==
  /\ after <=> \/ (before /\ v <= rising_min)
               \/ (since # NoTime /\ t - since >= TUV_MIN_NS)
  /\ (v > rising_min => ~after)

\* C32: for VCC and for VIO, the undervoltage flag after an update is set
\* iff it was set and the sample is not above the rising threshold, or the
\* voltage was sampled below the falling threshold at this update and at
\* every update since one taken at least 100 ms earlier; a sample above the
\* rising threshold clears the flag
C32_UndervoltageHysteresis ==
  [][mon'.op = "power_monitor_update" =>
       /\ UvRule(power_state.uvcc_flag, power_state'.uvcc_flag,
                 power_state'.vcc, UVCC_RISING_MIN, mon'.vcc_below_since,
                 timing'.current_time_ns)
       /\ UvRule(power_state.uvio_flag, power_state'.uvio_flag,
                 power_state'.vio, UVIO_RISING_MIN, mon'.vio_below_since,
                 timing'.current_time_ns)]_vars

\* the VCC flag is set by an update that ends 100 ms of samples below the
\* falling threshold, while the VIO flag, set earlier, is held inside the
\* hysteresis band
C32_Witness ==
  /\ mon.op = "power_monitor_update"
  /\ power_state.uvcc_flag
  /\ mon.vcc_below_since # NoTime
  /\ timing.current_time_ns - mon.vcc_below_since = TUV_MIN_NS
  /\ power_state.uvio_flag
  /\ power_state.vio > UVIO_FALLING_MAX
  /\ power_state.vio < UVIO_RISING_MIN

C34_TimeMonotonic ==
  [][mon'.advances # mon.advances =>
       /\ ~u64_less(timing_engine_get_time_u64(timing'),
                    timing_engine_get_time_u64(timing))
       /\ <<0>> \o timing_engine_get_time_u64(timing')
            = u64_sum(timing_engine_get_time_u64(timing), mon'.delta)]_vars

C36_TransceiverMatchesSupplyAndMode ==
  nsteps > 0 =>
    /\ (can_transceiver.state = CAN_STATE_OFF <=> power_state.uvsup_flag)
    /\ (can_transceiver.state = CAN_STATE_ACTIVE
          <=> current_mode \in {MODE_NORMAL, MODE_SILENT})
    /\ (can_transceiver.driver_enabled <=> current_mode = MODE_NORMAL)

\* the first step has taken the transceiver from off to active: both
\* evaluations of the state machine were needed
C36_Witness ==
  /\ nsteps = 1
  /\ current_mode = MODE_NORMAL
  /\ can_transceiver.state = CAN_STATE_ACTIVE
  /\ can_transceiver.driver_enabled
  /\ ~power_state.uvsup_flag

\* an input recorded after the reference point is applied again
IsReplay == mon.rep_phase = "replay" /\ mon'.rep_pos = mon.rep_pos + 1

\* C37: after the restore of a snapshot taken in a state x, a sequence of
\* pin inputs and steps yields the modes, flags and output pin values that
\* the same sequence yielded when it was applied directly from x
C37_RestoreThenSameBehaviour ==
  [][IsReplay => Outputs' = mon.rep_out[mon.rep_pos]]_vars

\* C38: the step that follows a successful set_supply_voltages or configure
\* with VSUP at or below the undervoltage falling threshold sets the VSUP
\* undervoltage flag and forces the mode to Off
C38_ConfiguredSupplyIsEvaluated ==
  [][(IsStep /\ mon.cfg # <<>> /\ mon.ret
        /\ mon.cfg[1] <= UVSUP_FALLING_MIN) =>
       (power_state'.uvsup_flag /\ mode_state'.current_mode = MODE_OFF)]_vars

\* the timing parameters are held in hundredths of their units
TTXDDTO_CONFIGURED_NS == timing_params.ttxddto_ms * 10000

TSILENCE_CONFIGURED_NS == timing_params.tsilence_s * 10000000

\* C39: the timing parameters the instance holds govern its timed
\* behaviour: the dominant-timeout flag is not set before the configured
\* transmit-dominant timeout has elapsed, and Sleep is not entered before
\* the configured silence duration has elapsed
C39_TimingParametersGovern ==
  /\ (fault_state.txddto_flag
        => timing.current_time_ns >= TTXDDTO_CONFIGURED_NS)
  /\ (current_mode = MODE_SLEEP
        => timing.current_time_ns >= TSILENCE_CONFIGURED_NS)

IsReset == mon'.op = "reset" /\ mon.op # "reset"

\* C40: after a reset the queryable fields have their default values, and
\* the inputs that were applied to the instance when it was new yield, when
\* applied again after the reset, the modes, flags and output pin values
\* they yielded then
C40_ResetIsLikeNew ==
  [][/\ (IsReset =>
          /\ pins' = pin_manager_init
          /\ mode_state'.current_mode = MODE_OFF
          /\ timing'.current_time_ns = 0
          /\ timing_params' = timing_params_default
          /\ tj_temperature' = 25
          /\ ~fault_state'.cbf_flag)
     /\ (IsReplay => Outputs' = mon.rep_out[mon.rep_pos])]_vars

====
